---- MODULE Spec2Model ----
(***************************************************************************)
(* Vectorised multi-agent environments: the synchronous runner             *)
(* (SyncVectorParallelEnv), the asynchronous runner                        *)
(* (AsyncVectorParallelEnv) and its worker loop                            *)
(* (_async_parallel_env_worker).                                           *)
(*                                                                         *)
(* One behaviour of the model is one runner object driven by a caller.     *)
(* Init chooses which runner is constructed and over which kind of         *)
(* sub-environments; the variables of the other runner stay at their       *)
(* initial values.                                                         *)
(***************************************************************************)
EXTENDS Integers, Sequences, FiniteSets, TLC

(***************************************************************************)
(* Identifiers                                                             *)
(***************************************************************************)
env_ids == <<"env_0", "env_1">>

possible_agents == <<"p0", "p1">>

num_envs == Len(env_ids)

Envs == {env_ids[i] : i \in 1..num_envs}

Agents == {possible_agents[i] : i \in 1..Len(possible_agents)}

\* position of a sub-environment (the worker index of the source, 1-based)
Index(e) == CHOOSE i \in 1..num_envs : env_ids[i] = e

Range(s) == {s[i] : i \in 1..Len(s)}

\* the agents of S in possible_agents order
AgentList(S) == SelectSeq(possible_agents, LAMBDA a : a \in S)

AgentLists == {AgentList(S) : S \in SUBSET Agents}

\* the sub-environments of S in env_ids order
EnvList(S) == SelectSeq(env_ids, LAMBDA e : e \in S)

(***************************************************************************)
(* Bounds                                                                  *)
(***************************************************************************)
\* collective operations begun while a worker still holds a command or a
\* response of an earlier one, in one behaviour
MaxStaleBegins == 1

\* awaits that time out in one behaviour
MaxTimeouts == 1

\* workers that fail in one behaviour
MaxFailures == 1

\* seed values handed to reset: 1..MaxSeed
MaxSeed == 2

(***************************************************************************)
(* The sub-environment contract (PettingZoo ParallelEnv).                  *)
(* A call returns what the sub-environment hands back and the agent list   *)
(* it holds afterwards.  Dictionaries are functions on the agents they     *)
(* are keyed by.                                                           *)
(***************************************************************************)
NoAgents == << >>

\* agent lists a sub-environment may start an episode with
ResetAgentLists == {possible_agents}

\* the agents that finish by termination; the others finish by truncation
Terminating == {possible_agents[1]}

\* the sets of agents that may finish in one step of an episode with the
\* agents of cur: none, all of them, or all but the first possible agent
DoneSets(cur) == {{}, Range(cur), Range(cur) \ {possible_agents[1]}}

ObsOf(e, kind) == [env |-> e, kind |-> kind]

\* env.reset(): a fresh episode with agent list new
SubEnvReset(e, new) ==
    [op      |-> "reset",
     acts    |-> {},
     before  |-> new,
     agents  |-> new,
     obs     |-> [a \in Range(new) |-> ObsOf(e, "reset")],
     rew     |-> [a \in Range(new) |-> 0],
     term    |-> [a \in Range(new) |-> FALSE],
     trunc   |-> [a \in Range(new) |-> FALSE]]

\* env.step(acts): every agent of cur gets a result, the agents of done
\* leave (terminated or truncated)
SubEnvStep(e, cur, acts, done) ==
    [op      |-> "step",
     acts    |-> acts,
     before  |-> cur,
     agents  |-> AgentList(Range(cur) \ done),
     obs     |-> [a \in Range(cur) |-> ObsOf(e, "step")],
     rew     |-> [a \in Range(cur) |-> 1],
     term    |-> [a \in Range(cur) |-> (a \in done /\ a \in Terminating)],
     trunc   |-> [a \in Range(cur) |-> (a \in done /\ a \notin Terminating)]]

\* step of a sub-environment wrapped in AutoResetParallelEnvWrapper: with
\* no agent left the wrapper starts a new episode instead of stepping
WrappedEnvStep(e, cur, acts, done, new) ==
    IF cur = NoAgents
    THEN [SubEnvReset(e, new) EXCEPT !.op = "wrapper_reset", !.acts = acts]
    ELSE SubEnvStep(e, cur, acts, done)

\* what a sub-environment decides by itself in one call: the agents that
\* finish (done) and the agent list of a new episode
EnvChoices == [done : SUBSET Agents, new : ResetAgentLists]

DefaultNew == possible_agents

\* a choice names only what the call uses
StepChoice(c, cur) ==
    /\ c.done \in DoneSets(cur)
    /\ c.new = DefaultNew

ResetChoice(c) == c.done = {}

WrappedStepChoice(c, cur) ==
    IF cur = NoAgents THEN ResetChoice(c) ELSE StepChoice(c, cur)

(***************************************************************************)
(* Vector base                                                             *)
(***************************************************************************)
\* _update_envs_have_agents: the index derived from a ledger
UpdateEnvsHaveAgents(ledger) ==
    [a \in Agents |-> EnvList({e \in Envs : a \in Range(ledger[e])})]

\* variant: the index derived before the ledger is assigned
LedgerIndexBeforeAssignment(before, after) == UpdateEnvsHaveAgents(before)

\* the index a step leaves: the ledger is assigned first and the index is
\* derived from it afterwards
LedgerIndex(before, after) == UpdateEnvsHaveAgents(after)

\* agent-major results are sets of keys <<agent, env_id>> with a value each
NoEntries == << >>

EmptyResult ==
    [call |-> "none", status |-> "none", arg |-> "none",
     observation |-> NoEntries, reward |-> NoEntries,
     termination |-> NoEntries, truncation |-> NoEntries,
     state |-> NoEntries]

\* the entries sub-environment e contributes for the agents of keys
Keyed(keys, e) == {<<a, e>> : a \in keys}

\* merge per-sub-environment dictionaries d[e] (a function on agents) into
\* one agent-major mapping restricted to the keys listed in keys[e]
Merge(keys, d) ==
    [p \in UNION {Keyed(keys[e], e) : e \in Envs} |-> d[p[2]][p[1]]]

(***************************************************************************)
(* State                                                                   *)
(***************************************************************************)
VARIABLES
    runner,               \* "sync" or "async": which class was constructed
    use_shared_memory,    \* asynchronous runner: observations go through shared memory
    state_space_kind,     \* "single", "per_agent" or "none": what the sub-environments expose
    need_autoreset_envs,  \* _need_autoreset_envs / the worker's need_autoreset
    env_fns,              \* per EnvID: what its factory makes (spaces, possible_agents)
    self_env_ids,         \* the attribute env_ids
    map_env_id_to_env,    \* _map_env_id_to_env / _map_env_id_to_process: positions
    sub_agents,           \* env.agents of every sub-environment
    agents,               \* the liveness ledger
    agents_old,
    envs_have_agents,     \* _envs_have_agents
    autoreset_envs,       \* _autoreset_envs (synchronous runner)
    astate,               \* _state (asynchronous runner)
    pc,                   \* where the orchestrator is blocked inside a call
    cmdq,                 \* per worker: commands sent and not yet taken up
    respq,                \* per worker: responses sent and not yet received
    alive,                \* per worker: the process is running
    env_closed,           \* per worker: it has closed its sub-environment
    autoreset,            \* per worker: the local autoreset flag
    error_queue,
    parent_pipes,         \* per worker: "open" or "closed" (closed and set to None)
    observations,         \* the shared observation buffer, one slot per worker
    timeouts,             \* awaits that timed out, so far
    failures,             \* workers that failed, so far
    stale_begins,         \* operations begun over unread commands or responses, so far
    ledger_from,          \* the call that last wrote the ledger
    last_op,              \* what every sub-environment was last asked to do
    result,               \* what the caller's last call returned or raised
    debug                 \* self.debug of the synchronous runner

vars == <<runner, use_shared_memory, state_space_kind, need_autoreset_envs, env_fns,
          self_env_ids, map_env_id_to_env,
          sub_agents, agents, agents_old, envs_have_agents, autoreset_envs,
          astate, pc, cmdq, respq, alive, env_closed, autoreset, error_queue,
          parent_pipes, observations, timeouts, failures, stale_begins,
          ledger_from,
          last_op, result, debug>>

\* the parts of the state
fixed_vars == <<runner, use_shared_memory, state_space_kind, need_autoreset_envs,
                env_fns, self_env_ids, map_env_id_to_env, debug>>

config_vars == <<fixed_vars, timeouts, failures, stale_begins>>

ledger_vars == <<agents, agents_old, envs_have_agents, ledger_from>>

worker_vars == <<sub_agents, cmdq, respq, alive, env_closed, autoreset, error_queue,
                 observations, last_op>>

async_vars == <<astate, pc, cmdq, respq, alive, env_closed, autoreset, error_queue,
                parent_pipes, observations>>

NoOp == [op |-> "none", acts |-> {}]

\* AsyncState
DEFAULT == "default"

WAITING_RESET == "reset"

WAITING_STEP == "step"

WAITING_CALL == "call"

(***************************************************************************)
(* Construction                                                            *)
(***************************************************************************)
\* agent lists a freshly constructed sub-environment may hold
InitAgentLists == {NoAgents, possible_agents}

\* the objects constructed: the class, use_shared_memory, what state the
\* sub-environments expose, and which of them come wrapped with autoreset
Configs ==
    [runner : {"sync"}, shm : {FALSE}, kind : {"single", "per_agent", "none"},
     wrapped : SUBSET Envs]
    \cup
    {[runner |-> "async", shm |-> TRUE,  kind |-> "single",    wrapped |-> {}],
     [runner |-> "async", shm |-> FALSE, kind |-> "single",    wrapped |-> {}],
     [runner |-> "async", shm |-> TRUE,  kind |-> "per_agent", wrapped |-> {env_ids[num_envs]}],
     [runner |-> "async", shm |-> FALSE, kind |-> "none",      wrapped |-> {env_ids[num_envs]}]}

\* the spaces a sub-environment gives an agent
SpaceIds == {"A", "B"}

\* possible_agents of a sub-environment
AgentOrders ==
    {possible_agents, <<possible_agents[2], possible_agents[1]>>, <<possible_agents[1]>>}

\* what a factory makes, as far as construction looks at it: observation_spaces
\* and action_spaces are dictionaries over the agents; state_space and
\* state_spaces are "none" where the sub-environment lacks the attribute
EnvFns ==
    UNION {[possible_agents : {o},
            observation_spaces : [Range(o) -> SpaceIds],
            action_spaces : {[a \in Range(o) |-> s] : s \in SpaceIds},
            state_space : {"none", "S1", "S2"},
            state_spaces : {"none", "SS"}] : o \in AgentOrders}

\* the sub-environment every factory makes in the behaviours of Spec
ReferenceEnv(kind) ==
    [possible_agents |-> possible_agents,
     observation_spaces |-> [a \in Agents |-> "A"],
     action_spaces |-> [a \in Agents |-> "A"],
     state_space |-> IF kind = "single" THEN "S1" ELSE "none",
     state_spaces |-> IF kind = "per_agent" THEN "SS" ELSE "none"]

\* what state() finds: a single state space, per-agent state spaces, neither
KindOf(d) ==
    IF d.state_spaces # "none" THEN "per_agent"
    ELSE IF d.state_space # "none" THEN "single"
    ELSE "none"

\* single_state_space as __init__ sets it from the reference sub-environment
SingleStateSpace(d) ==
    IF d.state_space # "none" /\ d.state_spaces = "none" THEN d.state_space ELSE "none"

\* what env.state() of sub-environment e may return, as far as len() sees
\* it: a sub-environment with agents has a state that is not empty, and a
\* state laid out in shared memory has the fixed shape of its space
SubEnvState(e) ==
    IF sub_agents[e] # NoAgents \/ use_shared_memory THEN {"full"} ELSE {"empty", "full"}

\* str(i) for the positions there are
Digits == <<"0", "1", "2", "3">>

\* variant: the first identifier repeats the second
EnvIdsClamped(n) == [i \in 1..n |-> "env_" \o Digits[IF i = 1 THEN 2 ELSE i]]

\* tuple(f"env_{env_id}" for env_id in range(num_envs))
EnvIds(n) == [i \in 1..n |-> "env_" \o Digits[i]]

\* dict(zip(ids, envs)), each sub-environment or worker named by its
\* position: a later pair replaces an earlier one with the same key
ZipMap(ids) ==
    [e \in Range(ids) |->
        CHOOSE i \in 1..Len(ids) : ids[i] = e /\ \A j \in (i + 1)..Len(ids) : ids[j] # e]

\* env_ids and the maps from it before __init__ runs
Unassigned == << >>

\* every field but pc, env_fns, env_ids, the maps and debug, as construction
\* leaves it
FreshRunner ==
    /\ \E c \in Configs :
        /\ runner = c.runner
        /\ use_shared_memory = c.shm
        /\ state_space_kind = c.kind
        /\ need_autoreset_envs = [e \in Envs |-> e \notin c.wrapped]
    /\ \E l \in InitAgentLists : sub_agents = [e \in Envs |-> l]
    /\ agents = sub_agents
    /\ agents_old = [e \in Envs |-> NoAgents]
    /\ envs_have_agents = UpdateEnvsHaveAgents(agents)
    /\ autoreset_envs = [e \in Envs |-> FALSE]
    /\ astate = DEFAULT
    /\ cmdq = [e \in Envs |-> << >>]
    /\ respq = [e \in Envs |-> << >>]
    /\ alive = [e \in Envs |-> runner = "async"]
    /\ env_closed = [e \in Envs |-> FALSE]
    /\ autoreset = [e \in Envs |-> FALSE]
    /\ error_queue = << >>
    /\ parent_pipes = [e \in Envs |-> "open"]
    /\ observations = [e \in Envs |-> "unset"]
    /\ timeouts = 0
    /\ failures = 0
    /\ stale_begins = 0
    /\ ledger_from = "init"
    /\ last_op = [e \in Envs |-> NoOp]
    /\ result = EmptyResult

\* debug: bool = False
Fresh == FreshRunner /\ debug = FALSE

\* env_ids and the maps of a constructed runner
Identified ==
    /\ self_env_ids = EnvIds(num_envs)
    /\ map_env_id_to_env = ZipMap(self_env_ids)

Init ==
    /\ Fresh
    /\ Identified
    /\ pc = "idle"
    /\ env_fns = [e \in Envs |-> ReferenceEnv(state_space_kind)]

(***************************************************************************)
(* Action batches passed to step: agent-major, batch[a] is the set of      *)
(* EnvIDs agent a has an action for.                                       *)
(***************************************************************************)
ActionBatches == [Agents -> SUBSET Envs]

\* the projection of step: a KeyError when an agent of the batch lacks an
\* entry for a sub-environment of envs_have_agents
ProjectionFails(batch) ==
    \E a \in DOMAIN batch : \E e \in Range(envs_have_agents[a]) : e \notin batch[a]

EnvActions(batch) ==
    [e \in Envs |-> {a \in DOMAIN batch : e \in Range(envs_have_agents[a])}]

(***************************************************************************)
(* The seed argument of reset                                              *)
(***************************************************************************)
\* the seed a sub-environment is reset with, as the set of its values:
\* empty for None
NoSeed == {}

SeedValues == 1..MaxSeed

\* an id that names no sub-environment
ForeignEnvID == "env_x"

\* seed=None
SeedNone == [shape |-> "none", val |-> NoSeed]

\* the seed arguments of reset: None, an int, a list, a dict
Seeds ==
    {SeedNone}
    \cup [shape : {"int"}, val : SeedValues]
    \cup [shape : {"list"},
          val : UNION {[1..n -> SeedValues] : n \in 1..(num_envs + 1)}]
    \cup [shape : {"dict"},
          val : UNION {[K -> SeedValues] : K \in SUBSET (Envs \cup {ForeignEnvID})}]

\* variant: a list is aligned to the reversed EnvID order
SeedOfListReversed(l, e) == {l[Len(l) + 1 - Index(e)]}

\* zip(self.env_ids, seed): the i-th element goes to the i-th EnvID
SeedOfList(l, e) == {l[Index(e)]}

\* the dictionary reset makes of its seed argument
SeedMap(seed) ==
    CASE seed.shape = "none" -> [e \in Envs |-> NoSeed]
      [] seed.shape = "int"  -> [e \in Envs |-> {seed.val}]
      [] seed.shape = "list" ->
            [e \in {f \in Envs : Index(f) <= Len(seed.val)} |-> SeedOfList(seed.val, e)]
      [] seed.shape = "dict" -> [k \in DOMAIN seed.val |-> {seed.val[k]}]

\* assert set(seed.keys()) == set(self.env_ids)
SeedAccepted(seed) == DOMAIN SeedMap(seed) = Envs

(***************************************************************************)
(* Synchronous runner                                                      *)
(***************************************************************************)
SyncReset(seed) ==
    /\ runner = "sync"
    /\ pc = "idle"
    /\ IF ~SeedAccepted(seed)
       THEN /\ result' = [EmptyResult EXCEPT !.call = "reset", !.status = "AssertionError"]
            /\ UNCHANGED <<sub_agents, agents, agents_old, envs_have_agents,
                           autoreset_envs, last_op, ledger_from>>
       ELSE
       \E c \in {cc \in [Envs -> EnvChoices] : \A e \in Envs : ResetChoice(cc[e])} :
        /\ LET out == [e \in Envs |-> SubEnvReset(e, c[e].new)]
           IN
            /\ sub_agents' = [e \in Envs |-> out[e].agents]
            /\ last_op' = [e \in Envs |-> [op |-> "reset", acts |-> SeedMap(seed)[e]]]
            /\ agents' = sub_agents'
            /\ envs_have_agents' = UpdateEnvsHaveAgents(agents')
            /\ autoreset_envs' = [e \in Envs |-> FALSE]
            /\ agents_old' = agents'
            /\ ledger_from' = "reset"
            /\ result' = [EmptyResult EXCEPT
                  !.call = "reset", !.status = "ok",
                  !.observation = Merge([e \in Envs |-> Range(out[e].agents)],
                                        [e \in Envs |-> out[e].obs])]
    /\ pc' = "returned"
    /\ UNCHANGED <<config_vars, astate, cmdq, respq, alive, env_closed, autoreset,
                   error_queue, parent_pipes, observations>>

\* variant: the loop goes on after the sub-environment that raised
CalledSkipping(k, e) == Index(e) # k

\* the sub-environments a loop over env_ids has called when the call of
\* the sub-environment at position k raises
Called(k, e) == Index(e) < k

\* a loop of reset or step that the sub-environment at position k leaves by
\* raising: the sub-environments called before it have moved on, nothing
\* is assigned to the runner and the exception reaches the caller (the
\* sub-environment that raised is taken to be as it was before the call)
SyncFails(call, k, out) ==
    /\ failures < MaxFailures
    /\ failures' = failures + 1
    /\ sub_agents' = [e \in Envs |-> IF Called(k, e) THEN out[e].agents ELSE sub_agents[e]]
    /\ last_op' = [e \in Envs |->
          IF Called(k, e) THEN [op |-> out[e].op, acts |-> out[e].acts] ELSE last_op[e]]
    /\ result' = [EmptyResult EXCEPT
          !.call = call, !.status = "EnvError", !.arg = env_ids[k]]
    /\ pc' = "returned"
    /\ UNCHANGED <<fixed_vars, timeouts, stale_begins, ledger_vars, autoreset_envs,
                   astate, cmdq, respq, alive, env_closed, autoreset, error_queue,
                   parent_pipes, observations>>

\* the two messages of state() on a runner without a state space
UseWrapper == "Please use AgentStateVectorParallelEnvWrapper"

NoStateFunction == "Sub-environments do not have a state function."

\* SyncVectorParallelEnv.state: state_space comes from the reference
\* sub-environment; env.state() of a sub-environment without a state raises,
\* and the states that are not empty are returned
SyncState ==
    /\ runner = "sync"
    /\ pc = "idle"
    /\ IF SingleStateSpace(env_fns[env_ids[1]]) = "none"
       THEN result' = [EmptyResult EXCEPT
                !.call = "state", !.status = "RuntimeError",
                !.arg = IF env_fns[env_ids[1]].state_spaces # "none"
                        THEN UseWrapper ELSE NoStateFunction]
       ELSE LET stop == CHOOSE i \in 1..(num_envs + 1) :
                          /\ i <= num_envs => KindOf(env_fns[env_ids[i]]) = "none"
                          /\ \A j \in 1..(i - 1) : KindOf(env_fns[env_ids[j]]) # "none"
            IN
            IF stop <= num_envs
            THEN result' = [EmptyResult EXCEPT
                     !.call = "state", !.status = "NotImplementedError",
                     !.arg = env_ids[stop]]
            ELSE \E states \in {f \in [Envs -> {"empty", "full"}] :
                                    \A e \in Envs : f[e] \in SubEnvState(e)} :
                   result' = [EmptyResult EXCEPT
                     !.call = "state", !.status = "ok",
                     !.state = [e \in {d \in Envs : states[d] # "empty"} |-> states[e]]]
    /\ pc' = "returned"
    /\ UNCHANGED <<config_vars, ledger_vars, worker_vars, autoreset_envs,
                   astate, parent_pipes>>

\* the choices open to sub-environment e in the loop body of step
SyncStepChoice(e, c) ==
    IF autoreset_envs[e] /\ need_autoreset_envs[e] THEN ResetChoice(c)
    ELSE IF need_autoreset_envs[e] THEN StepChoice(c, sub_agents[e])
    ELSE WrappedStepChoice(c, sub_agents[e])

\* what the loop body of step does with sub-environment e: the call it
\* makes, the agents it files results for and whether it notes reset_agents
\* (rebinds: the sub-environment replaced its agent list by a new list
\* object while stepping, so env_agents still names the old one)
SyncStepEnv(e, acts, c, rebinds) ==
    IF autoreset_envs[e] /\ need_autoreset_envs[e]
    THEN LET o == SubEnvReset(e, c.new)
         IN [out |-> o, keys |-> Range(o.agents), reset_agents |-> TRUE]
    ELSE IF autoreset_envs[e]
    THEN LET o == WrappedEnvStep(e, sub_agents[e], acts, c.done, c.new)
         IN [out |-> o, keys |-> Range(o.agents), reset_agents |-> TRUE]
    ELSE LET o == IF need_autoreset_envs[e]
                  THEN SubEnvStep(e, sub_agents[e], acts, c.done)
                  ELSE WrappedEnvStep(e, sub_agents[e], acts, c.done, c.new)
         IN [out |-> o,
             keys |-> IF rebinds THEN Range(o.before) ELSE Range(o.agents),
             reset_agents |-> FALSE]

\* the per-sub-environment action mappings that the batches which project
\* without error give rise to
ProjectedActions == {EnvActions(batch) : batch \in {b \in ActionBatches : ~ProjectionFails(b)}}

\* variant: a flag that is set stays set
AutoresetFlagKept(flag, after) == flag \/ Len(after) = 0

\* the entry of _autoreset_envs a step writes for a sub-environment whose
\* flag was flag and whose agents are after
AutoresetFlag(flag, after) == Len(after) = 0

\* variant: the entries are looked up as the loop over the sub-environments
\* goes, so the first sub-environment is reached before a later lookup fails
ReachedWhileProjecting(e) == Index(e) = 1

\* the sub-environments reached (stepped, reset or sent a command) when
\* agent_actions[env_id] raises: none, the loop that builds env_actions ends
\* before the loop over env_actions begins
ReachedBeforeKeyError(e) == FALSE

\* rebinding shows only when an agent finishes
CallChoice(c, rebinds) ==
    (\A e \in Envs : c[e].done = {}) => ~rebinds

SyncStep ==
    /\ runner = "sync"
    /\ pc = "idle"
    /\ \/ /\ (\E batch \in ActionBatches : ProjectionFails(batch))
          /\ result' = [EmptyResult EXCEPT !.call = "step", !.status = "KeyError"]
          /\ last_op' = [e \in Envs |->
                IF ReachedBeforeKeyError(e) THEN [op |-> "step", acts |-> {}] ELSE last_op[e]]
          /\ UNCHANGED <<sub_agents, agents, agents_old, envs_have_agents,
                         autoreset_envs, ledger_from>>
       \/ \E acts \in ProjectedActions :
          \E c \in {cc \in [Envs -> EnvChoices] : \A e \in Envs : SyncStepChoice(e, cc[e])} :
          \E rebinds \in BOOLEAN :
            /\ CallChoice(c, rebinds)
            /\ LET r == [e \in Envs |-> SyncStepEnv(e, acts[e], c[e], rebinds)]
               IN
                /\ sub_agents' = [e \in Envs |-> r[e].out.agents]
                /\ last_op' = [e \in Envs |-> [op |-> r[e].out.op, acts |-> r[e].out.acts]]
                /\ autoreset_envs' = [e \in Envs |-> AutoresetFlag(autoreset_envs[e], sub_agents'[e])]
                /\ agents' = sub_agents'
                /\ envs_have_agents' = LedgerIndex(agents, agents')
                /\ agents_old' = [e \in Envs |->
                      IF r[e].reset_agents THEN r[e].out.agents ELSE agents[e]]
                /\ ledger_from' = "step"
                /\ result' = [EmptyResult EXCEPT
                      !.call = "step", !.status = "ok",
                      !.observation = Merge([e \in Envs |-> r[e].keys], [e \in Envs |-> r[e].out.obs]),
                      !.reward      = Merge([e \in Envs |-> r[e].keys], [e \in Envs |-> r[e].out.rew]),
                      !.termination = Merge([e \in Envs |-> r[e].keys], [e \in Envs |-> r[e].out.term]),
                      !.truncation  = Merge([e \in Envs |-> r[e].keys], [e \in Envs |-> r[e].out.trunc])]
    /\ pc' = "returned"
    /\ UNCHANGED <<config_vars, astate, cmdq, respq, alive, env_closed, autoreset,
                   error_queue, parent_pipes, observations>>

\* reset with seed None in which env.reset raises
SyncResetFails ==
    /\ runner = "sync"
    /\ pc = "idle"
    /\ \E k \in 1..num_envs :
       \E c \in {cc \in [Envs -> EnvChoices] : \A e \in Envs : ResetChoice(cc[e])} :
          SyncFails("reset", k, [e \in Envs |-> SubEnvReset(e, c[e].new)])

\* step in which env.reset or env.step raises
SyncStepFails ==
    /\ runner = "sync"
    /\ pc = "idle"
    /\ \E k \in 1..num_envs :
       \E acts \in ProjectedActions :
       \E c \in {cc \in [Envs -> EnvChoices] : \A e \in Envs : SyncStepChoice(e, cc[e])} :
          SyncFails("step", k, [e \in Envs |-> SyncStepEnv(e, acts[e], c[e], FALSE).out])

(***************************************************************************)
(* Worker loop (_async_parallel_env_worker).  A command is a pair          *)
(* (command, data); a response is a pair (payload, success).               *)
(***************************************************************************)
Cmd(c, acts) == [cmd |-> c, acts |-> acts]

NoOut == [op |-> "none"]

\* payload of kind kind; scalar: reward, terminated and truncated are the
\* scalars 0, False, False instead of per-agent dictionaries
Resp(kind, out, scalar) == [kind |-> kind, ok |-> TRUE, out |-> out, scalar |-> scalar]

\* (None, False)
FailResp == [kind |-> "fail", ok |-> FALSE, out |-> NoOut, scalar |-> FALSE]

\* what can be raised inside a worker
ExcTypes == {"EnvError", "KeyboardInterrupt"}

\* the payload leaves out the observation when it went to shared memory
Shared(out) == IF use_shared_memory THEN [out EXCEPT !.obs = NoEntries] ELSE out

\* finally: env.close(), and the process exits
WorkerExit(e) ==
    /\ alive' = [alive EXCEPT ![e] = FALSE]
    /\ env_closed' = [env_closed EXCEPT ![e] = TRUE]

\* variant: every entry carries the index of the first worker
ErrorEntryOfFirst(e, t) == [index |-> env_ids[1], exctype |-> t, value |-> e]

\* (index,) + sys.exc_info()[:2]
ErrorEntry(e, t) == [index |-> e, exctype |-> t, value |-> e]

\* except (KeyboardInterrupt, Exception): report on the error queue, send the
\* failure flag, close the sub-environment and exit
WorkerFail(e) ==
    /\ failures < MaxFailures
    /\ failures' = failures + 1
    /\ \E t \in ExcTypes : error_queue' = Append(error_queue, ErrorEntry(e, t))
    /\ respq' = [respq EXCEPT ![e] = Append(@, FailResp)]
    /\ WorkerExit(e)
    /\ UNCHANGED <<sub_agents, autoreset, observations, last_op>>

\* the names the "_call" command refuses
ReservedNames == {"reset", "step", "state", "agents", "close", "_setattr", "_check_spaces"}

\* a method or attribute of the sub-environment that is no command
OtherName == "render"


\* an exception the worker's own code raises: the same handler as for a
\* failure of the sub-environment
WorkerRaises(e, t) ==
    /\ failures' = failures
    /\ error_queue' = Append(error_queue, ErrorEntry(e, t))
    /\ respq' = [respq EXCEPT ![e] = Append(@, FailResp)]
    /\ WorkerExit(e)
    /\ UNCHANGED <<sub_agents, autoreset, observations, last_op>>

WorkerReset(e, seed) ==
    \E new \in ResetAgentLists :
        LET out == SubEnvReset(e, new) IN
        /\ failures' = failures
        /\ sub_agents' = [sub_agents EXCEPT ![e] = out.agents]
        /\ last_op' = [last_op EXCEPT ![e] = [op |-> "reset", acts |-> seed]]
        /\ IF use_shared_memory
           THEN /\ observations' = [observations EXCEPT ![e] = ObsOf(e, "reset")]
                /\ autoreset' = [autoreset EXCEPT ![e] = FALSE]
           ELSE UNCHANGED <<observations, autoreset>>
        /\ respq' = [respq EXCEPT ![e] = Append(@, Resp("reset", Shared(out), FALSE))]
        /\ UNCHANGED <<alive, env_closed, error_queue>>

\* variant: the flag follows the wrapped sub-environments only
WorkerAutoresetInverted(e, after) == (Len(after) = 0) /\ ~need_autoreset_envs[e]

\* autoreset = (len(env.agents) == 0) and need_autoreset
WorkerAutoreset(e, after) == (Len(after) = 0) /\ need_autoreset_envs[e]

\* the worker drives the innermost sub-environment: its loop over the
\* wrapper chain leaves env bound to the last env.env
WorkerStepCommand(e, acts) ==
    \E c \in EnvChoices :
        /\ IF autoreset[e] THEN ResetChoice(c) ELSE StepChoice(c, sub_agents[e])
        /\ LET out == IF autoreset[e]
                      THEN SubEnvReset(e, c.new)
                      ELSE SubEnvStep(e, sub_agents[e], acts, c.done)
           IN
            /\ failures' = failures
            /\ sub_agents' = [sub_agents EXCEPT ![e] = out.agents]
            /\ last_op' = [last_op EXCEPT ![e] = [op |-> out.op, acts |-> out.acts]]
            /\ autoreset' = [autoreset EXCEPT ![e] = WorkerAutoreset(e, out.agents)]
            /\ IF use_shared_memory
               THEN observations' = [observations EXCEPT ![e] = ObsOf(e, out.op)]
               ELSE UNCHANGED observations
            /\ respq' = [respq EXCEPT ![e] =
                            Append(@, Resp("step", Shared(out), autoreset[e]))]
            /\ UNCHANGED <<alive, env_closed, error_queue>>

WorkerAnswer(e, resp) ==
    /\ failures' = failures
    /\ respq' = [respq EXCEPT ![e] = Append(@, resp)]
    /\ UNCHANGED <<sub_agents, alive, env_closed, autoreset, error_queue, observations, last_op>>

\* "_call": a reserved name raises ValueError before the attribute is
\* looked up; any other attribute is called or read and its value sent
WorkerCall(e, name) ==
    IF name \in ReservedNames
    THEN WorkerRaises(e, "ValueError")
    ELSE WorkerAnswer(e, Resp("call", NoOut, FALSE))

\* pipe.send((None, True)); break
WorkerClose(e) ==
    /\ failures' = failures
    /\ respq' = [respq EXCEPT ![e] = Append(@, Resp("close", NoOut, FALSE))]
    /\ WorkerExit(e)
    /\ UNCHANGED <<sub_agents, autoreset, error_queue, observations, last_op>>

\* one turn of the loop: pipe.recv(), the command, pipe.send()
Worker(e) ==
    /\ runner = "async"
    /\ pc # "returned"
    /\ alive[e]
    /\ cmdq[e] # << >>
    /\ cmdq' = [cmdq EXCEPT ![e] = Tail(@)]
    /\ LET command == Head(cmdq[e]) IN
        \/ WorkerFail(e)
        \/ command.cmd = "reset" /\ WorkerReset(e, command.acts)
        \/ command.cmd = "step" /\ WorkerStepCommand(e, command.acts)
        \/ command.cmd = "agents"
             /\ WorkerAnswer(e, Resp("agents", [op |-> "agents", agents |-> sub_agents[e]], FALSE))
        \/ command.cmd = "state"
             /\ \E s \in SubEnvState(e) :
                  WorkerAnswer(e, Resp("state", [op |-> "state", state |-> s], FALSE))
        \/ command.cmd = "_call" /\ WorkerCall(e, command.acts)
        \/ command.cmd = "close" /\ WorkerClose(e)
    /\ UNCHANGED <<fixed_vars, timeouts, stale_begins, ledger_vars,
                   autoreset_envs, astate, pc, parent_pipes, result>>

(***************************************************************************)
(* Asynchronous runner: pipes                                              *)
(***************************************************************************)
\* the first position in env_ids order whose sub-environment satisfies P,
\* num_envs + 1 when there is none
FirstIdx(P(_)) ==
    IF \E i \in 1..num_envs : P(env_ids[i])
    THEN CHOOSE i \in 1..num_envs : P(env_ids[i]) /\ \A j \in 1..(i - 1) : ~P(env_ids[j])
    ELSE num_envs + 1

InFlight(e) == Len(cmdq[e]) + Len(respq[e])

\* the sends of a new operation go out over what an earlier one left
BeginsStale == \E e \in Envs : InFlight(e) > 0

CountBegin ==
    IF BeginsStale
    THEN stale_begins < MaxStaleBegins /\ stale_begins' = stale_begins + 1
    ELSE stale_begins' = stale_begins

\* pipe.send: fails on a pipe that _raise_if_errors closed (None in the
\* list parent_pipes, a closed Connection in _map_env_id_to_parent_pipe) and
\* on the pipe of a worker that has exited
SendClass(e, viaList) ==
    IF parent_pipes[e] = "closed" THEN (IF viaList THEN "AttributeError" ELSE "OSError")
    ELSE IF ~alive[e] THEN "BrokenPipeError"
    ELSE "ok"

SendStop(viaList) == FirstIdx(LAMBDA e : SendClass(e, viaList) # "ok")

\* the pipes after a loop of sends that stops at position stop
Sent(command, stop) ==
    [e \in Envs |-> IF Index(e) < stop THEN Append(cmdq[e], command[e]) ELSE cmdq[e]]

StopClass(stop, class(_)) == IF stop > num_envs THEN "ok" ELSE class(env_ids[stop])

\* what destructuring and filing the response at the head of pipe e does at
\* each receiving site; a payload of another command does not have the
\* shape the site destructures
HeadClass(e, site) ==
    LET r == Head(respq[e]) IN
    IF site = "reset"
    THEN IF r.kind = "fail" THEN "TypeError"
         ELSE IF r.kind # "reset" THEN "ValueError"
         ELSE "ok"
    ELSE IF site = "step"
    THEN IF r.kind = "fail" THEN "TypeError"
         ELSE IF r.kind # "step" THEN "ValueError"
         ELSE IF agents[e] = NoAgents THEN "ok"
         ELSE IF ~(Range(agents[e]) \subseteq Agents) THEN "KeyError"
         ELSE IF r.scalar
              THEN IF ~use_shared_memory /\ agents[e][1] \notin DOMAIN r.out.obs
                   THEN "KeyError" ELSE "TypeError"
         ELSE IF ~(Range(agents[e]) \subseteq DOMAIN r.out.rew) THEN "KeyError"
         ELSE "ok"
    ELSE "ok"

\* pipe.recv at position e: "block" while the worker has not answered
RecvClass(e, site, viaList) ==
    IF parent_pipes[e] = "closed" THEN (IF viaList THEN "AttributeError" ELSE "OSError")
    ELSE IF respq[e] = << >> THEN (IF alive[e] THEN "block" ELSE "EOFError")
    ELSE HeadClass(e, site)

RecvStop(site, viaList) == FirstIdx(LAMBDA e : RecvClass(e, site, viaList) # "ok")

\* the pipes after a loop of receives that stops at position stop
Received(stop) ==
    [e \in Envs |->
        IF /\ Index(e) <= stop
           /\ parent_pipes[e] = "open"
           /\ respq[e] # << >>
        THEN Tail(respq[e]) ELSE respq[e]]

\* _poll_pipe_envs(timeout) with a timeout: every pipe is open and has
\* something to read (a response, or the end of file of an exited worker)
PollPipeEnvs ==
    \A e \in Envs : parent_pipes[e] = "open" /\ (respq[e] # << >> \/ ~alive[e])

Raised(call, status, arg) ==
    [EmptyResult EXCEPT !.call = call, !.status = status, !.arg = arg]

\* the call raises and changes nothing else
OnlyRaise(call, status, arg) ==
    /\ result' = Raised(call, status, arg)
    /\ pc' = "returned"
    /\ UNCHANGED <<config_vars, ledger_vars, worker_vars, autoreset_envs,
                   astate, parent_pipes>>

\* _raise_if_errors: one error_queue entry per failure flag, the pipe of
\* each entry closed, the last entry raised
Drained(k) == SubSeq(error_queue, 1, k)

RaiseIfErrors(call, k) ==
    /\ Len(error_queue) >= k
    /\ error_queue' = SubSeq(error_queue, k + 1, Len(error_queue))
    /\ parent_pipes' = [e \in Envs |->
          IF \E i \in 1..k : error_queue[i].index = e THEN "closed" ELSE parent_pipes[e]]
    /\ result' = Raised(call, error_queue[k].exctype, error_queue[k].value)

(***************************************************************************)
(* Asynchronous runner: begin of a collective operation                    *)
(***************************************************************************)
Idle == runner = "async" /\ pc = "idle"

\* variant: only a pending reset counts as pending
PendingResetOnly == astate = WAITING_RESET

\* if self._state != AsyncState.DEFAULT: raise AlreadyPendingCallError
Pending == astate # DEFAULT

\* variant: any pending operation may be awaited
NotWaitingAtAll(waiting) == astate = DEFAULT

\* if self._state != AsyncState.WAITING_X: raise NoAsyncCallError
NotWaiting(waiting) == astate # waiting

\* the sends of a begin: all pipes get their command and the state becomes
\* waiting, or the send that fails raises and the state stays
Begin(call, command, waiting, viaList) ==
    LET stop == SendStop(viaList) IN
    /\ CountBegin
    /\ cmdq' = Sent(command, stop)
    /\ IF stop > num_envs
       THEN /\ astate' = waiting
            /\ result' = Raised(call, "ok", "none")
       ELSE /\ astate' = astate
            /\ result' = Raised(call, SendClass(env_ids[stop], viaList), "none")
    /\ pc' = "returned"
    /\ UNCHANGED <<fixed_vars, timeouts, failures, ledger_vars, autoreset_envs, sub_agents,
                   respq, alive, env_closed, autoreset, error_queue, parent_pipes,
                   observations, last_op>>

\* _reset_async(seed, options), seed being the dictionary reset made
ResetAsync(seed) ==
    /\ Idle
    /\ IF Pending
       THEN OnlyRaise("reset_async", "AlreadyPendingCallError", astate)
       ELSE Begin("reset_async", [e \in Envs |-> Cmd("reset", seed[e])], WAITING_RESET, FALSE)

\* reset(seed, options) up to and including its call of _reset_async; the
\* _reset_await() it returns with is the action ResetAwait
Reset(seed) ==
    /\ Idle
    /\ IF ~SeedAccepted(seed)
       THEN OnlyRaise("reset", "AssertionError", "none")
       ELSE ResetAsync(SeedMap(seed))

StepAsync ==
    /\ Idle
    /\ IF Pending
       THEN OnlyRaise("step_async", "AlreadyPendingCallError", astate)
       ELSE \/ /\ (\E batch \in ActionBatches : ProjectionFails(batch))
               /\ result' = Raised("step_async", "KeyError", "none")
               /\ pc' = "returned"
               /\ cmdq' = [e \in Envs |->
                     IF ReachedBeforeKeyError(e)
                     THEN Append(cmdq[e], Cmd("step", {})) ELSE cmdq[e]]
               /\ UNCHANGED <<config_vars, ledger_vars, sub_agents, respq, alive,
                              env_closed, autoreset, error_queue, observations, last_op,
                              autoreset_envs, astate, parent_pipes>>
            \/ \E acts \in ProjectedActions :
                 Begin("step_async", [e \in Envs |-> Cmd("step", acts[e])], WAITING_STEP, FALSE)

\* _call_async(name, *args, **kwargs)
CallAsync(name) ==
    /\ Idle
    /\ IF Pending
       THEN OnlyRaise("call_async", "AlreadyPendingCallError", astate)
       ELSE Begin("call_async", [e \in Envs |-> Cmd("_call", name)], WAITING_CALL, TRUE)

(***************************************************************************)
(* Asynchronous runner: _update_agents and the end of reset and step       *)
(***************************************************************************)
\* a ledger entry that is no agent list: the key is missing, or the value
\* is the payload of another command
BadLedger == <<"?">>

\* _update_agents, first half: the sends
UpdateAgentsSend(call, waitpc) ==
    LET stop == SendStop(FALSE) IN
    /\ cmdq' = Sent([e \in Envs |-> Cmd("agents", {})], stop)
    /\ IF stop > num_envs
       THEN pc' = waitpc
       ELSE /\ pc' = "returned"
            /\ result' = Raised(call, SendClass(env_ids[stop], FALSE), "none")

\* the ledger _update_agents builds from the responses up to position stop
AgentsReceived(stop) ==
    [e \in Envs |->
        IF Index(e) < stop /\ Head(respq[e]).ok
        THEN IF Head(respq[e]).kind = "agents" THEN Head(respq[e]).out.agents
             ELSE BadLedger
        ELSE BadLedger]

\* observation[agent][env_id] of reset: the slot self.observations[i], i
\* left over from the loop over env_ids, or the sub-environment's payload
ResetObservation(ledger, obses) ==
    [p \in UNION {Keyed(Range(ledger[e]), e) : e \in Envs} |->
        IF use_shared_memory THEN observations[env_ids[num_envs]] ELSE obses[p]]

\* _update_agents, second half, and what follows it in _reset_await and
\* _step_await
UpdateAgentsFinish ==
    /\ runner = "async"
    /\ pc \in {"reset_agents", "step_agents"}
    /\ LET call == IF pc = "reset_agents" THEN "reset" ELSE "step"
           stop == RecvStop("agents", FALSE)
           class == StopClass(stop, LAMBDA e : RecvClass(e, "agents", FALSE))
           ledger == AgentsReceived(stop)
           fails == {e \in Envs : ~Head(respq[e]).ok}
       IN
        /\ class # "block"
        /\ pc' = "returned"
        /\ respq' = Received(stop)
        /\ agents' = ledger
        /\ IF class # "ok"
           THEN /\ result' = Raised(call, class, "none")
                /\ ledger_from' = "_update_agents"
                /\ UNCHANGED <<agents_old, envs_have_agents, astate,
                               error_queue, parent_pipes>>
           ELSE IF fails # {}
           THEN /\ RaiseIfErrors(call, Cardinality(fails))
                /\ ledger_from' = "_update_agents"
                /\ UNCHANGED <<agents_old, envs_have_agents, astate>>
           ELSE /\ agents_old' = IF call = "reset" THEN [e \in Envs |-> NoAgents]
                                 ELSE agents_old
                /\ envs_have_agents' = UpdateEnvsHaveAgents(ledger)
                /\ ledger_from' = call
                /\ UNCHANGED <<error_queue, parent_pipes>>
                /\ IF \E e \in Envs : ledger[e] = BadLedger
                   THEN /\ result' = Raised(call, "TypeError", "none")
                        /\ astate' = astate
                   ELSE IF call = "step"
                   THEN /\ result' = [result EXCEPT !.status = "ok"]
                        /\ astate' = DEFAULT
                   ELSE IF /\ ~use_shared_memory
                           /\ \E e \in Envs : \E a \in Range(ledger[e]) :
                                 <<a, e>> \notin DOMAIN result.observation
                   THEN /\ result' = Raised(call, "KeyError", "none")
                        /\ astate' = astate
                   ELSE /\ result' = [result EXCEPT
                              !.status = "ok",
                              !.observation = ResetObservation(ledger, result.observation)]
                        /\ astate' = DEFAULT
    /\ UNCHANGED <<config_vars, autoreset_envs, sub_agents, cmdq, alive, env_closed,
                   autoreset, observations, last_op>>

(***************************************************************************)
(* Asynchronous runner: await of a collective operation                    *)
(***************************************************************************)
\* variant: the receiving loop swallows what a response raises and the
\* await returns what it has
AwaitSwallows(call, stop, class) ==
    /\ respq' = Received(stop)
    /\ result' = Raised(call, "ok", "none")
    /\ pc' = "returned"
    /\ UNCHANGED <<config_vars, ledger_vars, autoreset_envs, astate,
                   sub_agents, cmdq, alive, env_closed, autoreset, error_queue,
                   parent_pipes, observations, last_op>>

\* what the receiving loop of _reset_await and _step_await leaves when it
\* raises at position stop
AwaitRaises(call, stop, class) ==
    /\ respq' = Received(stop)
    /\ result' = Raised(call, class, "none")
    /\ pc' = "returned"
    /\ UNCHANGED <<config_vars, ledger_vars, autoreset_envs, astate,
                   sub_agents, cmdq, alive, env_closed, autoreset, error_queue,
                   parent_pipes, observations, last_op>>

TimesOut(call) ==
    /\ timeouts < MaxTimeouts
    /\ timeouts' = timeouts + 1
    /\ astate' = DEFAULT
    /\ result' = Raised(call, "TimeoutError", "none")
    /\ pc' = "returned"
    /\ UNCHANGED <<fixed_vars, failures, stale_begins, ledger_vars, worker_vars,
                   autoreset_envs, parent_pipes>>

\* timeout: the await was given a timeout
ResetAwait(timeout) ==
    /\ Idle
    /\ IF NotWaiting(WAITING_RESET)
       THEN OnlyRaise("reset", "NoAsyncCallError", WAITING_RESET)
       ELSE IF timeout /\ ~PollPipeEnvs
       THEN TimesOut("reset")
       ELSE LET stop == RecvStop("reset", FALSE)
                class == StopClass(stop, LAMBDA e : RecvClass(e, "reset", FALSE))
            IN
            /\ class # "block"
            /\ IF class # "ok"
               THEN AwaitRaises("reset", stop, class)
               ELSE /\ respq' = Received(stop)
                    /\ UpdateAgentsSend("reset", "reset_agents")
                    /\ IF pc' = "reset_agents"
                       THEN result' = [EmptyResult EXCEPT
                               !.call = "reset", !.status = "running",
                               !.observation =
                                   Merge([e \in Envs |-> DOMAIN Head(respq[e]).out.obs],
                                         [e \in Envs |-> Head(respq[e]).out.obs])]
                       ELSE TRUE
                    /\ UNCHANGED <<config_vars, ledger_vars, autoreset_envs, astate,
                                   sub_agents, alive, env_closed, autoreset, error_queue,
                                   parent_pipes, observations, last_op>>

\* variant: the entries follow the agent list the worker reports
StepKeysAfter(e) == Range(Head(respq[e]).out.agents)

\* for agent in self.agents[env_id]: the agents _step_await files entries
\* for are those of the ledger as the step found it
StepKeys(e) == Range(agents[e])

\* the entries _step_await files for sub-environment e: one per agent of the
\* ledger, the observation from the shared slot or from the payload
StepObs(e) ==
    [a \in StepKeys(e) |->
        IF use_shared_memory THEN observations[e] ELSE Head(respq[e]).out.obs[a]]

StepAwait(timeout) ==
    /\ Idle
    /\ IF NotWaiting(WAITING_STEP)
       THEN OnlyRaise("step", "NoAsyncCallError", WAITING_STEP)
       ELSE IF timeout /\ ~PollPipeEnvs
       THEN TimesOut("step")
       ELSE LET stop == RecvStop("step", FALSE)
                class == StopClass(stop, LAMBDA e : RecvClass(e, "step", FALSE))
                keys == [e \in Envs |-> StepKeys(e)]
            IN
            /\ class # "block"
            /\ IF class # "ok"
               THEN AwaitRaises("step", stop, class)
               ELSE /\ respq' = Received(stop)
                    /\ agents_old' = agents
                    /\ UpdateAgentsSend("step", "step_agents")
                    /\ IF pc' = "step_agents"
                       THEN result' = [EmptyResult EXCEPT
                               !.call = "step", !.status = "running",
                               !.observation = Merge(keys, [e \in Envs |-> StepObs(e)]),
                               !.reward = Merge(keys, [e \in Envs |-> Head(respq[e]).out.rew]),
                               !.termination = Merge(keys, [e \in Envs |-> Head(respq[e]).out.term]),
                               !.truncation = Merge(keys, [e \in Envs |-> Head(respq[e]).out.trunc])]
                       ELSE TRUE
                    /\ UNCHANGED <<config_vars, agents, envs_have_agents, ledger_from,
                                   autoreset_envs, astate, sub_agents, alive, env_closed,
                                   autoreset, error_queue, parent_pipes,
                                   observations, last_op>>

\* len() of the payload of response r: the state of a "state" response, the
\* list of an "agents" response, the tuple of any other
Payload(r) ==
    IF r.kind = "state" THEN r.out.state
    ELSE IF r.kind = "agents" /\ r.out.agents = NoAgents THEN "empty"
    ELSE "full"

\* the dictionary state() fills: an entry for every response received with
\* success, the slot of shared memory or else the payload
StateEntries ==
    [e \in {d \in Envs : Head(respq[d]).ok} |->
        IF use_shared_memory /\ state_space_kind = "single" THEN "full"
        ELSE Payload(Head(respq[e]))]

\* the end of _call_wait and of state: every response is a pair, so the
\* receives only fail on a pipe that is closed or at its end of file
Collect(call, viaList) ==
    LET stop == RecvStop("call", viaList)
        class == StopClass(stop, LAMBDA e : RecvClass(e, "call", viaList))
        fails == {e \in Envs : ~Head(respq[e]).ok}
    IN
    /\ class # "block"
    /\ respq' = Received(stop)
    /\ IF class # "ok"
       THEN /\ result' = Raised(call, class, "none")
            /\ UNCHANGED <<astate, error_queue, parent_pipes>>
       ELSE IF fails # {}
       THEN /\ RaiseIfErrors(call, Cardinality(fails))
            /\ astate' = astate
       ELSE /\ result' = [Raised(call, "ok", "none") EXCEPT
                              !.state = IF call = "state" THEN StateEntries ELSE NoEntries]
            /\ astate' = DEFAULT
            /\ UNCHANGED <<error_queue, parent_pipes>>
    /\ UNCHANGED <<config_vars, ledger_vars, autoreset_envs, sub_agents, cmdq,
                   alive, env_closed, autoreset, observations, last_op>>

CallWait(timeout) ==
    /\ Idle
    /\ IF NotWaiting(WAITING_CALL)
       THEN OnlyRaise("call", "NoAsyncCallError", WAITING_CALL)
       ELSE IF timeout /\ ~PollPipeEnvs
       THEN TimesOut("call")
       ELSE Collect("call", TRUE) /\ pc' = "returned"

(***************************************************************************)
(* Asynchronous runner: state()                                            *)
(***************************************************************************)
State ==
    /\ Idle
    /\ IF state_space_kind = "per_agent"
       THEN OnlyRaise("state", "RuntimeError", UseWrapper)
       ELSE IF state_space_kind = "none"
       THEN OnlyRaise("state", "NotImplementedError", NoStateFunction)
       ELSE IF Pending
       THEN OnlyRaise("state", "AlreadyPendingCallError", astate)
       ELSE LET stop == SendStop(TRUE) IN
            /\ CountBegin
            /\ cmdq' = Sent([e \in Envs |-> Cmd("state", {})], stop)
            /\ IF stop > num_envs
               THEN /\ pc' = "state_recv"
                    /\ result' = Raised("state", "running", "none")
               ELSE /\ pc' = "returned"
                    /\ result' = Raised("state", SendClass(env_ids[stop], TRUE), "none")
            /\ UNCHANGED <<fixed_vars, timeouts, failures, ledger_vars, autoreset_envs, astate,
                           sub_agents, respq, alive, env_closed, autoreset, error_queue,
                           parent_pipes, observations, last_op>>

StateFinish ==
    /\ runner = "async"
    /\ pc = "state_recv"
    /\ Collect("state", FALSE)
    /\ pc' = "returned"

(***************************************************************************)
(* Asynchronous runner: close_extras                                       *)
(***************************************************************************)
\* the methods of the class that await a pending operation
WaitMethods == {"_reset_await", "_step_await", "_call_wait"}

\* f"{self._state.value}_wait"
WaitName(value) == value \o "_wait"

\* the position of the first open pipe whose worker has exited: the send of
\* ("close", None) fails there
CloseSendStop == FirstIdx(LAMBDA e : parent_pipes[e] = "open" /\ ~alive[e])

\* close_extras(timeout, terminate) up to the receives of the graceful path.
\* process.terminate() ends a worker where it stands: its finally clause
\* does not run
Close(terminate) ==
    /\ Idle
    /\ IF Pending
       THEN \* getattr raises AttributeError, which the try does not catch;
            \* no state value names a method of WaitMethods
            /\ WaitName(astate) \notin WaitMethods
            /\ OnlyRaise("close", "AttributeError", WaitName(astate))
       ELSE IF terminate
       THEN /\ alive' = [e \in Envs |-> FALSE]
            /\ parent_pipes' = [e \in Envs |-> "closed"]
            /\ pc' = "closed"
            /\ result' = Raised("close", "ok", "none")
            /\ UNCHANGED <<config_vars, ledger_vars, autoreset_envs, astate,
                           sub_agents, cmdq, respq, env_closed, autoreset,
                           error_queue, observations, last_op>>
       ELSE LET stop == CloseSendStop IN
            /\ cmdq' = [e \in Envs |->
                  IF Index(e) < stop /\ parent_pipes[e] = "open"
                  THEN Append(cmdq[e], Cmd("close", {})) ELSE cmdq[e]]
            /\ IF stop > num_envs
               THEN /\ pc' = "closing"
                    /\ result' = Raised("close", "running", "none")
               ELSE /\ pc' = "returned"
                    /\ result' = Raised("close", "BrokenPipeError", "none")
            /\ UNCHANGED <<config_vars, ledger_vars, autoreset_envs, astate,
                           sub_agents, respq, alive, env_closed, autoreset,
                           error_queue, parent_pipes, observations, last_op>>

\* the rest of the graceful path: one pipe.recv() per open pipe, pipe.close()
\* for every pipe, process.join() for every process.  The step is taken when
\* every worker has exited, which join waits for; a worker exits after it
\* has answered, so the receives do not block then
CloseFinish ==
    /\ runner = "async"
    /\ pc = "closing"
    /\ \A e \in Envs : ~alive[e]
    /\ IF \E e \in Envs : parent_pipes[e] = "open" /\ respq[e] = << >>
       THEN /\ result' = Raised("close", "EOFError", "none")
            /\ pc' = "returned"
            /\ UNCHANGED <<respq, parent_pipes>>
       ELSE /\ respq' = [e \in Envs |->
                  IF parent_pipes[e] = "open" THEN Tail(respq[e]) ELSE respq[e]]
            /\ parent_pipes' = [e \in Envs |-> "closed"]
            /\ pc' = "closed"
            /\ result' = Raised("close", "ok", "none")
    /\ UNCHANGED <<config_vars, ledger_vars, autoreset_envs, astate, sub_agents,
                   cmdq, alive, env_closed, autoreset, error_queue,
                   observations, last_op>>

(***************************************************************************)
(* The caller                                                              *)
(***************************************************************************)
\* the caller has looked at what its call returned or raised and goes on
Resume ==
    /\ pc = "returned"
    /\ pc' = "idle"
    /\ result' = EmptyResult
    /\ UNCHANGED <<config_vars, ledger_vars, worker_vars, autoreset_envs,
                   astate, parent_pipes>>

Next ==
    \/ Resume
    \/ SyncReset(SeedNone)
    \/ SyncStep
    \/ \E e \in Envs : Worker(e)
    \/ ResetAsync(SeedMap(SeedNone))
    \/ StepAsync
    \/ CallAsync(OtherName)
    \/ \E timeout \in BOOLEAN : ResetAwait(timeout)
    \/ \E timeout \in BOOLEAN : StepAwait(timeout)
    \/ \E timeout \in BOOLEAN : CallWait(timeout)
    \/ UpdateAgentsFinish
    \/ State
    \/ StateFinish
    \/ SyncState
    \/ SyncResetFails
    \/ SyncStepFails

Spec == Init /\ [][Next]_vars

\* reset over every shape of seed; the asynchronous runner is only reset
SeedNext ==
    \/ Resume
    \/ \E seed \in Seeds : SyncReset(seed)
    \/ SyncStep
    \/ \E seed \in Seeds : Reset(seed)
    \/ \E e \in Envs : Worker(e)
    \/ ResetAwait(FALSE)
    \/ UpdateAgentsFinish

SeedSpec == Init /\ [][SeedNext]_vars

(***************************************************************************)
(* __init__ over sub-environments that differ                              *)
(***************************************************************************)
\* envs[0], dummy_env = env_fns[0]()
Reference == env_fns[env_ids[1]]

\* hasattr(self, "single_state_space") inside the _check_spaces() call of
\* SyncVectorParallelEnv.__init__: the attribute is assigned after the call
SyncHasSingleStateSpace == FALSE

\* SyncVectorParallelEnv._check_spaces: what the loop body raises for e
SyncSpaceError(e) ==
    IF env_fns[e].observation_spaces # Reference.observation_spaces THEN "observation"
    ELSE IF env_fns[e].action_spaces # Reference.action_spaces THEN "action"
    ELSE IF SyncHasSingleStateSpace /\ env_fns[e].state_space # SingleStateSpace(Reference)
    THEN "state"
    ELSE "none"

\* the answer of worker e to ("_check_spaces", spaces), spaces having three
\* elements
WorkerCheckSpaces(e) ==
    LET state_space == IF env_fns[e].state_spaces # "none" THEN "none"
                       ELSE env_fns[e].state_space
        data == <<Reference.observation_spaces, Reference.action_spaces,
                  SingleStateSpace(Reference)>>
    IN  <<data[1] = env_fns[e].observation_spaces,
          data[2] = env_fns[e].action_spaces,
          data[3] = state_space \/ data[3] = env_fns[e].state_spaces>>

\* AsyncVectorParallelEnv._check_spaces: what it raises
AsyncSpaceError ==
    IF \E e \in Envs : ~WorkerCheckSpaces(e)[1] THEN "observation"
    ELSE IF \E e \in Envs : ~WorkerCheckSpaces(e)[2] THEN "action"
    ELSE IF \E e \in Envs : ~WorkerCheckSpaces(e)[3] THEN "state"
    ELSE "none"

\* __init__ raises out of _check_spaces, or the object is there
Constructs(error) ==
    /\ pc = "new"
    /\ IF error = "none"
       THEN /\ pc' = "idle"
            /\ result' = Raised("__init__", "ok", "none")
       ELSE /\ pc' = "failed"
            /\ result' = Raised("__init__", "RuntimeError", error)
    /\ self_env_ids' = EnvIds(num_envs)
    /\ map_env_id_to_env' = IF runner = "sync" \/ error = "none"
                            THEN ZipMap(self_env_ids') ELSE Unassigned
    /\ UNCHANGED <<runner, use_shared_memory, state_space_kind, need_autoreset_envs,
                   env_fns, debug, timeouts, failures, stale_begins, ledger_vars, worker_vars,
                   autoreset_envs, astate, parent_pipes>>

ConstructSync ==
    /\ runner = "sync"
    /\ LET stop == FirstIdx(LAMBDA e : SyncSpaceError(e) # "none") IN
       Constructs(IF stop > num_envs THEN "none" ELSE SyncSpaceError(env_ids[stop]))

ConstructAsync ==
    /\ runner = "async"
    /\ Constructs(AsyncSpaceError)

\* before __init__, over every combination of factories
ConstructInit ==
    /\ Fresh
    /\ self_env_ids = Unassigned
    /\ map_env_id_to_env = Unassigned
    /\ pc = "new"
    /\ env_fns \in [Envs -> EnvFns]
    /\ state_space_kind = KindOf(Reference)

ConstructNext == ConstructSync \/ ConstructAsync

ConstructSpec == ConstructInit /\ [][ConstructNext]_vars

\* factories that differ in the state they expose only
StateEnvFns ==
    {d \in EnvFns : /\ d.possible_agents = possible_agents
                    /\ d.observation_spaces = [a \in Agents |-> "A"]
                    /\ d.action_spaces = [a \in Agents |-> "A"]}

\* a runner that __init__ has constructed over such factories
StateInit ==
    /\ Fresh
    /\ Identified
    /\ pc = "idle"
    /\ env_fns \in [Envs -> StateEnvFns]
    /\ state_space_kind = KindOf(Reference)
    /\ IF runner = "sync"
       THEN \A e \in Envs : SyncSpaceError(e) = "none"
       ELSE AsyncSpaceError = "none"

\* variant: only state_spaces is asked for
SupportsAgentStateSpacesOnly(d) == d.state_spaces # "none"

\* hasattr(_e, "state") and hasattr(_e, "state_spaces") and
\* hasattr(_e, "state_space"); the first holds of every ParallelEnv, which
\* has the method state
SupportsAgentState(d) == d.state_spaces # "none" /\ d.state_space # "none"

\* envs[0].state_space(agent) of a sub-environment with per-agent states
AgentStateSpace(d, a) == <<d.state_space, a>>

\* SyncAgentStateVectorParallelEnvWrapper(env): env.envs is an attribute of
\* the synchronous runner only; the result holds the wrapper's state_spaces
WrapAgentState ==
    /\ pc = "idle"
    /\ IF runner = "async"
       THEN OnlyRaise("wrap", "AttributeError", "envs")
       ELSE IF \E e \in Envs : ~SupportsAgentState(env_fns[e])
       THEN OnlyRaise("wrap", "AssertionError", "none")
       ELSE /\ result' = [Raised("wrap", "ok", "none") EXCEPT
                  !.state = [a \in Range(possible_agents) |->
                               [i \in 1..num_envs |->
                                   AgentStateSpace(env_fns[env_ids[1]], a)]]]
            /\ pc' = "returned"
            /\ UNCHANGED <<config_vars, ledger_vars, worker_vars, autoreset_envs,
                           astate, parent_pipes>>

\* reset, step and state(); awaits are given no timeout
StateNext ==
    \/ Resume
    \/ WrapAgentState
    \/ SyncReset(SeedNone)
    \/ SyncStep
    \/ SyncState
    \/ \E e \in Envs : Worker(e)
    \/ ResetAsync(SeedMap(SeedNone))
    \/ StepAsync
    \/ ResetAwait(FALSE)
    \/ StepAwait(FALSE)
    \/ UpdateAgentsFinish
    \/ State
    \/ StateFinish

StateSpec == StateInit /\ [][StateNext]_vars

\* the attribute call() reads after _call_async
CallAwaitName == "_call_await"

\* call(name, *args, **kwargs): _call_async, then self._call_await(), an
\* attribute the class does not define
Call(name) ==
    /\ Idle
    /\ IF Pending
       THEN OnlyRaise("call", "AlreadyPendingCallError", astate)
       ELSE LET stop == SendStop(TRUE) IN
            /\ CountBegin
            /\ cmdq' = Sent([e \in Envs |-> Cmd("_call", name)], stop)
            /\ IF stop <= num_envs
               THEN /\ astate' = astate
                    /\ pc' = "returned"
                    /\ result' = Raised("call", SendClass(env_ids[stop], TRUE), "none")
               ELSE /\ astate' = WAITING_CALL
                    /\ IF CallAwaitName \in WaitMethods
                       THEN /\ pc' = "call_recv"
                            /\ result' = Raised("call", "running", "none")
                       ELSE /\ pc' = "returned"
                            /\ result' = Raised("call", "AttributeError", CallAwaitName)
            /\ UNCHANGED <<fixed_vars, timeouts, failures, ledger_vars, autoreset_envs,
                           sub_agents, respq, alive, env_closed, autoreset, error_queue,
                           parent_pipes, observations, last_op>>

\* the asynchronous runner with close; awaits are given no timeout
CloseInit == Init /\ runner = "async"

CloseNext ==
    \/ Resume
    \/ \E e \in Envs : Worker(e)
    \/ ResetAsync(SeedMap(SeedNone))
    \/ StepAsync
    \/ CallAsync(OtherName)
    \/ Call(OtherName)
    \/ ResetAwait(FALSE)
    \/ StepAwait(FALSE)
    \/ CallWait(FALSE)
    \/ UpdateAgentsFinish
    \/ \E terminate \in BOOLEAN : Close(terminate)
    \/ CloseFinish

CloseSpec == CloseInit /\ [][CloseNext]_vars

\* the asynchronous runner with reset and with call over every name
CallInit == Init /\ runner = "async"

CallNext ==
    \/ Resume
    \/ \E e \in Envs : Worker(e)
    \/ ResetAsync(SeedMap(SeedNone))
    \/ ResetAwait(FALSE)
    \/ UpdateAgentsFinish
    \/ \E name \in ReservedNames \cup {OtherName} : CallAsync(name)
    \/ \E timeout \in BOOLEAN : CallWait(timeout)

CallSpec == CallInit /\ [][CallNext]_vars

(***************************************************************************)
(* The asynchronous runner with workers that answer every command they     *)
(* receive and a caller that awaits what it began                          *)
(***************************************************************************)
\* one turn of the loop in which nothing raises
WorkerAnswers(e) == Worker(e) /\ failures' = failures

\* the caller calls, without timeout, the await of the operation that is
\* pending
AwaitPending ==
    \/ astate = WAITING_RESET /\ ResetAwait(FALSE)
    \/ astate = WAITING_STEP /\ StepAwait(FALSE)

LiveInit == Init /\ runner = "async"

LiveNext ==
    \/ Resume
    \/ \E e \in Envs : WorkerAnswers(e)
    \/ ResetAsync(SeedMap(SeedNone))
    \/ StepAsync
    \/ \E timeout \in BOOLEAN : ResetAwait(timeout)
    \/ \E timeout \in BOOLEAN : StepAwait(timeout)
    \/ UpdateAgentsFinish

\* every worker process runs whatever the caller does, the orchestrator goes
\* on inside an await, the caller goes on after a call and calls the await
\* of what is pending
LiveSpec ==
    /\ LiveInit
    /\ [][LiveNext]_vars
    /\ \A e \in Envs : SF_vars(WorkerAnswers(e))
    /\ WF_vars(UpdateAgentsFinish)
    /\ WF_vars(Resume)
    /\ SF_vars(AwaitPending)

(***************************************************************************)
(* Synchronous runner over sub-environments that break the contract, with  *)
(* debug on and off                                                        *)
(***************************************************************************)
\* a key that names no agent
Stranger == "px"

\* the mappings of a sub-environment that reset and step read themselves
\* (info goes to add_info_in_place)
ResetMappings == {"obs"}

StepMappings == {"obs", "rew", "term", "trunc"}

NoFault == [call |-> "none", mapping |-> "none", how |-> "none"]

\* what a sub-environment gets wrong: in every reset or in every step, one
\* mapping lacks the key of an agent or has a key too many
Faults ==
    {NoFault}
    \cup [call : {"reset"}, mapping : ResetMappings, how : {"missing", "extra"}]
    \cup [call : {"step"}, mapping : StepMappings, how : {"missing", "extra"}]

FaultyEnvFns(kind) ==
    {[possible_agents |-> ReferenceEnv(kind).possible_agents,
      observation_spaces |-> ReferenceEnv(kind).observation_spaces,
      action_spaces |-> ReferenceEnv(kind).action_spaces,
      state_space |-> ReferenceEnv(kind).state_space,
      state_spaces |-> ReferenceEnv(kind).state_spaces,
      fault |-> f] : f \in Faults}

\* the key set of mapping m as sub-environment e returns it from call, S
\* being the agents the contract keys it by
KeysOf(e, call, m, S) ==
    LET f == env_fns[e].fault IN
    IF f.call # call \/ f.mapping # m \/ (f.how = "missing" /\ S = {}) THEN S
    ELSE IF f.how = "extra" THEN S \cup {Stranger}
    ELSE S \ {AgentList(S)[1]}

\* _check_containing_agents(agents, mapping) passes
CheckContainingAgents(env_agents, keys) == keys = env_agents

\* env.reset or env.step
CallOf(op) == IF op = "reset" THEN "reset" ELSE "step"

\* the loop body of reset and step for sub-environment e after its call
\* returned r.out, r.keys being env.agents after a reset and env_agents
\* after a step: the exception it raises, or "ok"
LoopBody(e, r) ==
    LET call == CallOf(r.out.op)
        K(m) == KeysOf(e, call, m, DOMAIN r.out.obs)
    IN
    IF call = "reset"
    THEN IF r.keys \subseteq K("obs") THEN "ok" ELSE "KeyError"
    ELSE IF debug /\ \E m \in StepMappings : ~CheckContainingAgents(r.keys, K(m))
    THEN "AssertionError"
    ELSE IF \E m \in StepMappings : ~(r.keys \subseteq K(m)) THEN "KeyError"
    ELSE "ok"

\* the loop body raises status for the sub-environment at position k: that
\* sub-environment and those before it have been called and nothing is
\* assigned to the runner
LoopFails(call, k, status, out) ==
    /\ sub_agents' = [e \in Envs |-> IF Index(e) <= k THEN out[e].agents ELSE sub_agents[e]]
    /\ last_op' = [e \in Envs |->
          IF Index(e) <= k THEN [op |-> out[e].op, acts |-> out[e].acts] ELSE last_op[e]]
    /\ result' = [EmptyResult EXCEPT !.call = call, !.status = status, !.arg = env_ids[k]]
    /\ UNCHANGED <<ledger_vars, autoreset_envs>>

\* reset() over such sub-environments
FaultyReset ==
    /\ runner = "sync"
    /\ pc = "idle"
    /\ LET out == [e \in Envs |-> SubEnvReset(e, DefaultNew)]
           body == [e \in Envs |->
                       LoopBody(e, [out |-> out[e], keys |-> Range(out[e].agents)])]
           stop == FirstIdx(LAMBDA e : body[e] # "ok")
       IN
        IF stop <= num_envs
        THEN LoopFails("reset", stop, body[env_ids[stop]], out)
        ELSE /\ sub_agents' = [e \in Envs |-> out[e].agents]
             /\ last_op' = [e \in Envs |-> [op |-> "reset", acts |-> NoSeed]]
             /\ agents' = sub_agents'
             /\ envs_have_agents' = UpdateEnvsHaveAgents(agents')
             /\ autoreset_envs' = [e \in Envs |-> FALSE]
             /\ agents_old' = agents'
             /\ ledger_from' = "reset"
             /\ result' = [EmptyResult EXCEPT
                   !.call = "reset", !.status = "ok",
                   !.observation = Merge([e \in Envs |-> Range(out[e].agents)],
                                         [e \in Envs |-> out[e].obs])]
    /\ pc' = "returned"
    /\ UNCHANGED <<config_vars, astate, cmdq, respq, alive, env_closed, autoreset,
                   error_queue, parent_pipes, observations>>

\* step(actions) over such sub-environments
FaultyStep ==
    /\ runner = "sync"
    /\ pc = "idle"
    /\ \/ /\ (\E batch \in ActionBatches : ProjectionFails(batch))
          /\ result' = [EmptyResult EXCEPT !.call = "step", !.status = "KeyError"]
          /\ UNCHANGED <<sub_agents, agents, agents_old, envs_have_agents,
                         autoreset_envs, last_op, ledger_from>>
       \/ \E acts \in ProjectedActions :
          \E c \in {cc \in [Envs -> EnvChoices] : \A e \in Envs : SyncStepChoice(e, cc[e])} :
          \E rebinds \in BOOLEAN :
            /\ CallChoice(c, rebinds)
            /\ LET r == [e \in Envs |-> SyncStepEnv(e, acts[e], c[e], rebinds)]
                   body == [e \in Envs |-> LoopBody(e, r[e])]
                   stop == FirstIdx(LAMBDA e : body[e] # "ok")
               IN
                IF stop <= num_envs
                THEN LoopFails("step", stop, body[env_ids[stop]], [e \in Envs |-> r[e].out])
                ELSE
                /\ sub_agents' = [e \in Envs |-> r[e].out.agents]
                /\ last_op' = [e \in Envs |-> [op |-> r[e].out.op, acts |-> r[e].out.acts]]
                /\ autoreset_envs' = [e \in Envs |-> AutoresetFlag(autoreset_envs[e], sub_agents'[e])]
                /\ agents' = sub_agents'
                /\ envs_have_agents' = LedgerIndex(agents, agents')
                /\ agents_old' = [e \in Envs |->
                      IF r[e].reset_agents THEN r[e].out.agents ELSE agents[e]]
                /\ ledger_from' = "step"
                /\ result' = [EmptyResult EXCEPT
                      !.call = "step", !.status = "ok",
                      !.observation = Merge([e \in Envs |-> r[e].keys], [e \in Envs |-> r[e].out.obs]),
                      !.reward      = Merge([e \in Envs |-> r[e].keys], [e \in Envs |-> r[e].out.rew]),
                      !.termination = Merge([e \in Envs |-> r[e].keys], [e \in Envs |-> r[e].out.term]),
                      !.truncation  = Merge([e \in Envs |-> r[e].keys], [e \in Envs |-> r[e].out.trunc])]
    /\ pc' = "returned"
    /\ UNCHANGED <<config_vars, astate, cmdq, respq, alive, env_closed, autoreset,
                   error_queue, parent_pipes, observations>>

\* the synchronous runner constructed with debug on or off over
\* sub-environments without state, at most one of which breaks the contract
FaultyInit ==
    /\ FreshRunner
    /\ runner = "sync"
    /\ state_space_kind = "none"
    /\ debug \in BOOLEAN
    /\ Identified
    /\ pc = "idle"
    /\ env_fns \in [Envs -> FaultyEnvFns(state_space_kind)]
    /\ \E e \in Envs : \A d \in Envs \ {e} : env_fns[d].fault = NoFault

FaultyNext ==
    \/ Resume
    \/ FaultyReset
    \/ FaultyStep

FaultySpec == FaultyInit /\ [][FaultyNext]_vars

(***************************************************************************)
(* Properties                                                              *)
(***************************************************************************)
\* a call of the caller returns (or raises) in this step
Returns(call, status) ==
    pc # "returned" /\ pc' = "returned" /\ result'.call = call /\ result'.status = status

Returned(call, status) ==
    pc = "returned" /\ result.call = call /\ result.status = status

\* C1: when the ledger entry of a sub-environment that is not wrapped with
\* autoreset is empty after a step, the next step call resets it instead of
\* stepping it (no action reaches it) and leaves agents[e] equal to the
\* non-empty agent list of the reset
C1_AutoresetOnNextStep ==
    [][\A e \in Envs :
          ( /\ Returns("step", "ok")
            /\ ledger_from = "step"
            /\ agents[e] = NoAgents
            /\ need_autoreset_envs[e] )
          => ( /\ last_op'[e] = [op |-> "reset", acts |-> {}]
               /\ agents'[e] = sub_agents'[e]
               /\ agents'[e] # NoAgents )]_vars

\* a step of the asynchronous runner returned after resetting a
\* sub-environment whose ledger entry was empty
C1_Witness ==
    /\ runner = "async"
    /\ Returned("step", "ok")
    /\ \E e \in Envs :
        /\ need_autoreset_envs[e]
        /\ agents_old[e] = NoAgents
        /\ last_op[e].op = "reset"
        /\ agents[e] # NoAgents

\* sub-environment e was reset by the step that just returned
AutoResetIn(e) == need_autoreset_envs[e] /\ last_op[e].op = "reset"

\* C2: a step that auto-resets sub-environment e returns, for every agent
\* active in e after the reset, reward 0, termination false, truncation
\* false and the reset observation, in both runners
C2_AutoresetResults ==
    Returned("step", "ok") =>
        \A e \in Envs : AutoResetIn(e) =>
            \A a \in Range(agents[e]) :
                /\ <<a, e>> \in DOMAIN result.reward
                /\ <<a, e>> \in DOMAIN result.termination
                /\ <<a, e>> \in DOMAIN result.truncation
                /\ <<a, e>> \in DOMAIN result.observation
                /\ result.reward[<<a, e>>] = 0
                /\ result.termination[<<a, e>>] = FALSE
                /\ result.truncation[<<a, e>>] = FALSE
                /\ result.observation[<<a, e>>] = ObsOf(e, "reset")

\* C3: after an explicit reset returns, no sub-environment is flagged for
\* autoreset, neither in the runner nor in a worker
C3_NoFlagAcrossReset ==
    Returned("reset", "ok") =>
        \A e \in Envs : ~autoreset_envs[e] /\ ~autoreset[e]

BeginCalls == {"reset_async", "step_async", "call_async", "state"}

\* a begin is called while an operation is pending
BeginsWhilePending(call) ==
    /\ runner = "async"
    /\ pc = "idle"
    /\ astate # DEFAULT
    /\ result'.call = call

\* the call fails as already pending, names the pending operation, sends
\* nothing and leaves the execution state
FailsAlreadyPending ==
    /\ result'.status = "AlreadyPendingCallError"
    /\ result'.arg = astate
    /\ cmdq' = cmdq
    /\ astate' = astate

\* C4 as stated: reset-begin, step-begin, call-begin and state all fail as
\* already pending while the execution state is not DEFAULT
C4_BeginWhilePending ==
    [][\A call \in BeginCalls : BeginsWhilePending(call) => FailsAlreadyPending]_vars

\* C4 as the code has it: the begins fail as already pending; state does so
\* when the sub-environments expose a single global state space
C4_BeginWhilePendingSingleState ==
    [][\A call \in BeginCalls :
          ( /\ BeginsWhilePending(call)
            /\ (call = "state" => state_space_kind = "single") )
          => FailsAlreadyPending]_vars

\* a second step-begin was refused before the first was awaited
C4_Witness ==
    /\ Returned("step_async", "AlreadyPendingCallError")
    /\ result.arg = WAITING_STEP
    /\ astate = WAITING_STEP
    /\ \E e \in Envs : cmdq[e] # << >>

AwaitStates == {WAITING_RESET, WAITING_STEP, WAITING_CALL}

\* C5: awaiting X while the execution state is not WAITING_X fails with a
\* no-pending-call error, consumes no response and leaves the execution
\* state and the ledger
C5_AwaitWithoutBegin ==
    [][\A w \in AwaitStates :
          ( /\ runner = "async"
            /\ pc = "idle"
            /\ astate # w
            /\ result'.call = w )
          => ( /\ result'.status = "NoAsyncCallError"
               /\ respq' = respq
               /\ astate' = astate
               /\ <<agents, agents_old, envs_have_agents>>' =
                     <<agents, agents_old, envs_have_agents>> )]_vars

\* a step was awaited while a reset was pending and answered
C5_Witness ==
    /\ Returned("step", "NoAsyncCallError")
    /\ astate = WAITING_RESET
    /\ \A e \in Envs : respq[e] # << >>

\* C6: every worker has at most one command sent to it whose response is
\* not yet consumed
C6_OneOutstanding == \A e \in Envs : InFlight(e) <= 1

\* the await of the operation waiting is called with a timeout
TimedAwait(waiting) ==
    IF waiting = WAITING_RESET THEN ResetAwait(TRUE)
    ELSE IF waiting = WAITING_STEP THEN StepAwait(TRUE)
    ELSE CallWait(TRUE)

\* C7: a timed await of the pending operation fails with a timeout error
\* and sets the execution state to DEFAULT whenever some worker has no
\* response, leaving the workers and their commands alone; it goes on to
\* results only when every worker has a response
C7_TimedAwait ==
    [][\A w \in AwaitStates :
          (TimedAwait(w) /\ astate = w) =>
             /\ (\E e \in Envs : respq[e] = << >>) =>
                   /\ result'.status = "TimeoutError"
                   /\ astate' = DEFAULT
                   /\ UNCHANGED <<cmdq, respq, alive, sub_agents>>
             /\ result'.status \in {"ok", "running"} =>
                   \A e \in Envs : respq[e] # << >>]_vars

\* the timed awaits behave as C7 says as long as every worker whose pipe
\* is open and empty is still running
C7_TimedAwaitRunningWorkers ==
    [][\A w \in AwaitStates :
          ( /\ TimedAwait(w)
            /\ astate = w
            /\ \A e \in Envs :
                  (respq[e] = << >> /\ parent_pipes[e] = "open") => alive[e] )
          => /\ (\E e \in Envs : respq[e] = << >>) =>
                   /\ result'.status = "TimeoutError"
                   /\ astate' = DEFAULT
                   /\ UNCHANGED <<cmdq, respq, alive, sub_agents>>
             /\ result'.status \in {"ok", "running"} =>
                   \A e \in Envs : respq[e] # << >>]_vars

\* C8: a step of the asynchronous runner whose worker raised does not
\* return: the call raises and hands back no results
C8_PartialFailure ==
    ( /\ runner = "async"
      /\ pc = "returned"
      /\ result.call = "step"
      /\ \E e \in Envs : ~alive[e] )
    => ( /\ result.status # "ok"
         /\ result.observation = NoEntries
         /\ result.reward = NoEntries
         /\ result.termination = NoEntries
         /\ result.truncation = NoEntries )

\* one worker raised in a step, the other completed its step, and the
\* step call raised
C8_Witness ==
    /\ runner = "async"
    /\ pc = "returned"
    /\ result.call = "step"
    /\ result.status = "TypeError"
    /\ astate = WAITING_STEP
    /\ \E e, f \in Envs :
        /\ ~alive[e]
        /\ alive[f]
        /\ last_op[f].op = "step"
        /\ \E i \in 1..Len(error_queue) : error_queue[i].index = e

\* the failure flags the orchestrator takes off the pipes in this step
FlagsTaken == {e \in Envs : /\ respq[e] # << >>
                            /\ ~Head(respq[e]).ok
                            /\ respq'[e] = Tail(respq[e])}

\* C9: when the orchestrator receives the failure flags of k >= 1 workers,
\* it takes k entries off the error queue and raises the last of them with
\* its type and value
C9_RemoteFailure ==
    [][FlagsTaken # {} =>
          LET k == Cardinality(FlagsTaken) IN
          /\ Len(error_queue) >= k
          /\ error_queue' = SubSeq(error_queue, k + 1, Len(error_queue))
          /\ \A i \in 1..k : error_queue[i].index \in FlagsTaken
          /\ result'.status = error_queue[k].exctype
          /\ result'.arg = error_queue[k].value]_vars

\* the receives of _update_agents, _call_wait and state do as C9 says; the
\* receiving loops of _reset_await and _step_await are the ones left out
C9_RemoteFailureOutsideAwaitLoops ==
    [][(FlagsTaken # {} /\ ~(pc = "idle" /\ astate \in {WAITING_RESET, WAITING_STEP})) =>
          LET k == Cardinality(FlagsTaken) IN
          /\ Len(error_queue) >= k
          /\ error_queue' = SubSeq(error_queue, k + 1, Len(error_queue))
          /\ \A i \in 1..k : error_queue[i].index \in FlagsTaken
          /\ result'.status = error_queue[k].exctype
          /\ result'.arg = error_queue[k].value]_vars

\* envs_have_agents is the inverse of the ledger
Inverse ==
    \A a \in Agents : \A e \in Envs :
        (e \in Range(envs_have_agents[a])) <=> (a \in Range(agents[e]))

KeysIn(d, e) == {a \in Agents : <<a, e>> \in DOMAIN d}

\* the EnvIDs agent a has an entry for in the returned mapping d
EnvKeys(d, a) == {e \in Envs : <<a, e>> \in DOMAIN d}

C12_SyncResultsCoverActors ==
    [][(runner = "sync" /\ Returns("step", "ok")) =>
          \A e \in Envs : \A a \in Range(agents[e]) :
              /\ <<a, e>> \in DOMAIN result'.observation
              /\ <<a, e>> \in DOMAIN result'.reward
              /\ <<a, e>> \in DOMAIN result'.termination
              /\ <<a, e>> \in DOMAIN result'.truncation]_vars

\* C13: the action mapping a step hands to sub-environment e holds an
\* entry for exactly the agents of the ledger agents[e] as the step finds
\* it; entries of the batch for other agents are dropped
C13_ActionsProjected ==
    [][\A e \in Envs :
          /\ ( /\ runner = "sync"
               /\ Returns("step", "ok")
               /\ last_op'[e].op = "step" )
             => last_op'[e].acts = Range(agents[e])
          /\ ( /\ pc = "idle"
               /\ result'.call = "step_async"
               /\ Len(cmdq'[e]) > Len(cmdq[e]) )
             => cmdq'[e][Len(cmdq'[e])] = Cmd("step", Range(agents[e]))]_vars


\* C14: a reset that returns hands back, per agent a and sub-environment e,
\* an entry exactly when a is in e after the reset, and the entry is the
\* observation sub-environment e produced for a at that reset
C14_ResetObservation ==
    Returned("reset", "ok") =>
        \A e \in Envs : \A a \in Agents :
            /\ <<a, e>> \in DOMAIN result.observation <=> a \in Range(agents[e])
            /\ <<a, e>> \in DOMAIN result.observation
                  => result.observation[<<a, e>>] = ObsOf(e, "reset")


\* the seed the caller designates for sub-environment e
Designated(seed, e) ==
    CASE seed.shape = "none" -> {}
      [] seed.shape = "int"  -> {seed.val}
      [] seed.shape = "list" -> {seed.val[CHOOSE i \in 1..num_envs : env_ids[i] = e]}
      [] seed.shape = "dict" -> {seed.val[e]}

Malformed(seed) ==
    \/ seed.shape = "dict" /\ DOMAIN seed.val # Envs
    \/ seed.shape = "list" /\ Len(seed.val) # num_envs

\* C16: a reset with a malformed seed fails at once with the configuration
\* error (the AssertionError of the key check): no sub-environment is reset,
\* no command is sent, and ledger, autoreset flags and execution state stay
C16_MalformedSeedRejected ==
    [][\A seed \in Seeds :
          ( /\ Malformed(seed)
            /\ pc = "idle"
            /\ result'.call \in {"reset", "reset_async"}
            /\ (SyncReset(seed) \/ Reset(seed)) )
             => /\ result'.status = "AssertionError"
                /\ UNCHANGED <<sub_agents, last_op, cmdq, agents, agents_old,
                               envs_have_agents, autoreset_envs, astate>>]_vars

\* C17: a close requested while an operation is pending does not raise: it
\* goes on to the graceful close of the workers, or has terminated them
C17_CloseWhilePending ==
    [][(Idle /\ astate # DEFAULT /\ result'.call = "close")
          => result'.status \in {"running", "ok"}]_vars

\* C18: once close has returned, every worker process has exited, every
\* pipe of the orchestrator is closed and every worker has closed its
\* sub-environment
C18_Teardown ==
    pc = "closed" =>
        \A e \in Envs : ~alive[e] /\ parent_pipes[e] = "closed" /\ env_closed[e]

\* the single global state space of sub-environment e, "none" without one
GlobalStateSpace(e) ==
    IF env_fns[e].state_spaces = "none" THEN env_fns[e].state_space ELSE "none"

\* the properties in which some sub-environment differs from the reference
Offending ==
    {"observation" : e \in {f \in Envs :
         env_fns[f].observation_spaces # env_fns[env_ids[1]].observation_spaces}}
    \cup
    {"action" : e \in {f \in Envs :
         env_fns[f].action_spaces # env_fns[env_ids[1]].action_spaces}}
    \cup
    {"state" : e \in {f \in Envs :
         /\ GlobalStateSpace(env_ids[1]) # "none"
         /\ GlobalStateSpace(f) # GlobalStateSpace(env_ids[1])}}

\* C19: construction succeeds only when no sub-environment differs from the
\* reference in observation spaces, action spaces or (given a single global
\* state space) state space, and otherwise fails with the error that names
\* a property that differs
C19_SpacesChecked ==
    /\ pc = "idle" => Offending = {}
    /\ pc = "failed" => result.status = "RuntimeError" /\ result.arg \in Offending

\* C20: a runner is only constructed from sub-environments whose
\* possible_agents are those of the reference
C20_PossibleAgentsChecked ==
    pc = "idle" =>
        \A e \in Envs : env_fns[e].possible_agents = env_fns[env_ids[1]].possible_agents

\* state() fails before it does anything: one of the two messages is raised
Unavailable(r) == r.arg \in {UseWrapper, NoStateFunction}

\* C21: state() goes ahead only if every sub-environment exposes a single
\* global state; over sub-environments with per-agent state spaces it fails
\* with the message naming the agent-state wrapper, over sub-environments
\* without a state it fails, and a call that fails this way queries no
\* sub-environment and changes nothing of the runner
C21_StateAvailability ==
    [][ (pc = "idle" /\ pc' # "idle" /\ result'.call = "state") =>
          /\ ~Unavailable(result') => \A e \in Envs : KindOf(env_fns[e]) = "single"
          /\ (\A e \in Envs : KindOf(env_fns[e]) = "per_agent")
                => result'.arg = UseWrapper
          /\ (\A e \in Envs : KindOf(env_fns[e]) = "none")
                => result'.arg = NoStateFunction
          /\ Unavailable(result')
                => UNCHANGED <<config_vars, ledger_vars, worker_vars, autoreset_envs,
                               astate, parent_pipes>> ]_vars

\* C22: the mapping state() returns has an entry for a sub-environment
\* exactly when its state is not empty, so no entry holds an empty state,
\* and every sub-environment that has agents is among the entries
C22_StateEntries ==
    Returned("state", "ok") =>
        /\ \A e \in DOMAIN result.state : result.state[e] # "empty"
        /\ \A e \in Envs : sub_agents[e] # NoAgents => e \in DOMAIN result.state

\* C23: on the synchronous runner a failure raised by a sub-environment's
\* reset or step reaches the caller of the collective call, which returns
\* no result, and the sub-environments after it in the iteration order are
\* not called
C23_SyncFailurePropagates ==
    [][ (runner = "sync" /\ failures' # failures) =>
          /\ pc' = "returned"
          /\ result'.call \in {"reset", "step"}
          /\ result'.status = "EnvError"
          /\ result'.observation = NoEntries /\ result'.reward = NoEntries
          /\ result'.termination = NoEntries /\ result'.truncation = NoEntries
          /\ \A e \in Envs : Index(e) >= Index(result'.arg) =>
                sub_agents'[e] = sub_agents[e] /\ last_op'[e] = last_op[e] ]_vars

\* a step failed in the second sub-environment after the first was stepped
C23_Witness ==
    /\ runner = "sync"
    /\ Returned("step", "EnvError")
    /\ result.arg = env_ids[2]
    /\ last_op[env_ids[1]].op = "step"
    /\ last_op[env_ids[2]].op = "reset"

\* C24: call() issued in state DEFAULT on a runner whose workers all run,
\* with nothing unread in the pipes, returns a result (one per EnvID) and
\* leaves the execution state DEFAULT
C24_Call ==
    [][ ( /\ Idle /\ astate = DEFAULT
          /\ \A e \in Envs : alive[e] /\ parent_pipes[e] = "open" /\ InFlight(e) = 0
          /\ result'.call = "call" /\ pc' = "returned" )
        => result'.status = "ok" /\ astate' = DEFAULT ]_vars

\* env_ids has one entry for each of the n factories, env_0 .. env_{n-1},
\* no two equal, and each is mapped to the sub-environment or worker at its
\* own position
WellIdentified(n) ==
    /\ Len(self_env_ids) = n
    /\ \A i \in 1..n : self_env_ids[i] = env_ids[i]
    /\ \A i, j \in 1..n : i # j => self_env_ids[i] # self_env_ids[j]
    /\ DOMAIN map_env_id_to_env = Range(self_env_ids)
    /\ \A i \in 1..n : map_env_id_to_env[self_env_ids[i]] = i

\* C25: a runner constructed from n factories has env_ids env_0 .. env_{n-1},
\* pairwise distinct, and no reset, step, autoreset, failure or timeout
\* changes env_ids or which sub-environment or worker an EnvID stands for
C25_EnvIds ==
    /\ [](WellIdentified(Cardinality(DOMAIN env_fns)))
    /\ [][self_env_ids' = self_env_ids /\ map_env_id_to_env' = map_env_id_to_env]_vars

\* a worker has failed, an await has timed out and a step has written the
\* ledger after an autoreset
C25_Witness ==
    /\ failures = MaxFailures
    /\ timeouts = MaxTimeouts
    /\ ledger_from = "step"
    /\ \E e \in Envs : last_op[e].op = "reset" /\ need_autoreset_envs[e]
    /\ WellIdentified(num_envs)

\* C26: the agent-state wrapper is constructed only over sub-environments
\* that all expose state, state_space and state_spaces, and then its
\* state_spaces give every possible agent the reference sub-environment's
\* state space for that agent once per EnvID
C26_AgentStateWrapper ==
    Returned("wrap", "ok") =>
        /\ \A e \in Envs : env_fns[e].state_spaces # "none" /\ env_fns[e].state_space # "none"
        /\ DOMAIN result.state = Range(possible_agents)
        /\ \A a \in Range(possible_agents) :
              /\ Len(result.state[a]) = Len(self_env_ids)
              /\ \A i \in 1..Len(self_env_ids) :
                    result.state[a][i] = <<env_fns[env_ids[1]].state_space, a>>

\* the wrapper was constructed over a synchronous runner
C26_Witness ==
    /\ runner = "sync"
    /\ Returned("wrap", "ok")
    /\ \A e \in Envs : SupportsAgentState(env_fns[e])

\* C27: when a step of the synchronous runner returns, the autoreset flag
\* of every sub-environment is true exactly when its ledger entry is empty,
\* the flag being computed anew from the agents after the step
C27_AutoresetFlags ==
    [][ (runner = "sync" /\ Returns("step", "ok")) =>
          \A e \in Envs :
            /\ autoreset_envs'[e] <=> agents'[e] = NoAgents
            /\ autoreset_envs'[e] <=> sub_agents'[e] = NoAgents ]_vars

\* a step has cleared the flag of a sub-environment it reset and set the
\* flag of another
C27_Witness ==
    /\ runner = "sync"
    /\ Returned("step", "ok")
    /\ \E e, f \in Envs :
          /\ last_op[e].op = "reset" /\ ~autoreset_envs[e] /\ agents[e] # NoAgents
          /\ autoreset_envs[f] /\ agents[f] = NoAgents

\* C28: when a step or a reset returns, agents_old holds for every
\* sub-environment, the auto-reset ones among them, the ledger entry as it
\* was before the call rewrote the ledger, on both runners
C28_AgentsOldIsSnapshot ==
    [][ (Returns("step", "ok") \/ Returns("reset", "ok")) =>
          \A e \in Envs : agents_old'[e] = agents[e] ]_vars

\* this step of the model has sub-environment e go through a step command:
\* the loop of the synchronous step reaches it, or its worker answers a
\* "step"
Stepped(e) ==
    IF runner = "sync"
    THEN /\ pc = "idle" /\ pc' = "returned" /\ result'.call = "step"
         /\ \/ result'.status = "ok"
            \/ result'.status = "EnvError" /\ Index(e) < Index(result'.arg)
    ELSE /\ cmdq[e] # << >> /\ Head(cmdq[e]).cmd = "step"
         /\ cmdq'[e] = Tail(cmdq[e])
         /\ Len(respq'[e]) = Len(respq[e]) + 1
         /\ respq'[e][Len(respq'[e])].kind = "step"

\* C29: a sub-environment wrapped with autoreset is never reset by the
\* runner during a step; its step command goes to the wrapped
\* sub-environment, so with no agent left the wrapper starts the new episode
C29_WrappedAutoreset ==
    [][ \A e \in Envs : (~need_autoreset_envs[e] /\ Stepped(e)) =>
          last_op'[e].op = IF sub_agents[e] = NoAgents THEN "wrapper_reset" ELSE "step" ]_vars

\* the error queue holds an entry of worker e
HasEntry(q, e) == \E i \in 1..Len(q) : q[i].index = e

\* C30: a worker that fails in a command puts one entry with its own index
\* on the error queue, sends one failure flag on its pipe and exits; a
\* failure flag that is in a pipe the orchestrator still reads or that the
\* orchestrator takes off a pipe has an entry of its worker on the error
\* queue, so that draining one entry for each flag taken finds them there
C30_FailureReporting ==
    [][ /\ (runner = "async" /\ failures' # failures) =>
              \E e \in Envs :
                /\ alive[e] /\ ~alive'[e]
                /\ Len(error_queue') = Len(error_queue) + 1
                /\ SubSeq(error_queue', 1, Len(error_queue)) = error_queue
                /\ error_queue'[Len(error_queue')].index = e
                /\ respq'[e] = Append(respq[e], FailResp)
                /\ \A f \in Envs \ {e} : respq'[f] = respq[f] /\ alive'[f] = alive[f]
        /\ \A e \in Envs :
              (parent_pipes'[e] = "open" /\ \E j \in 1..Len(respq'[e]) : ~respq'[e][j].ok)
                 => HasEntry(error_queue', e)
        /\ \A e \in FlagsTaken : HasEntry(error_queue, e)
        /\ Len(error_queue) >= Cardinality(FlagsTaken) ]_vars

\* the orchestrator has taken the failure flag of the second worker and
\* drained its entry
C30_Witness ==
    /\ pc = "returned"
    /\ result.status \in ExcTypes
    /\ result.arg = env_ids[2]
    /\ ~alive[env_ids[2]]
    /\ respq[env_ids[2]] = << >>
    /\ error_queue = << >>
    /\ parent_pipes[env_ids[2]] = "closed"

\* C31: the slot of a worker in shared memory changes only when that worker
\* acts, and when the await of a reset or a step has received the responses
\* and assembles its result from the slots, the response it took from every
\* worker is the one to this operation and the worker has no later command
\* to write its slot for: one command of each worker was in flight
C31_SharedMemoryOwnership ==
    [][ /\ \A e \in Envs : ~(cmdq[e] # << >> /\ cmdq'[e] = Tail(cmdq[e]))
                              => observations'[e] = observations[e]
        /\ (Idle /\ use_shared_memory /\ pc' \in {"reset_agents", "step_agents"})
              => \A e \in Envs : InFlight(e) = 1 ]_vars

\* the ledger entry of e is written in this step from a response its worker
\* sent with the success flag (a worker that failed leaves no entry)
Filed(e) ==
    /\ runner = "async"
    /\ pc \in {"reset_agents", "step_agents"} /\ pc' = "returned"
    /\ respq[e] # << >> /\ respq'[e] = Tail(respq[e]) /\ Head(respq[e]).ok

\* C32: every ledger entry the runner writes is a subsequence of
\* possible_agents: the synchronous runner's after every call, the
\* asynchronous runner's whenever it files the payload a worker sent with
\* the success flag as agents[e]
C32_LedgerInvariant ==
    [][ \A e \in Envs :
          (runner = "sync" \/ Filed(e)) => agents'[e] \in AgentLists ]_vars

\* worker e takes a "_call" command that names a reserved command and is
\* not interrupted in it
TakesReserved(e) ==
    /\ failures' = failures
    /\ alive[e] /\ cmdq[e] # << >> /\ cmdq'[e] = Tail(cmdq[e])
    /\ Head(cmdq[e]).cmd = "_call" /\ Head(cmdq[e]).acts \in ReservedNames

\* a call command naming a reserved command has not been executed yet, or
\* the error of one is on the error queue
ReservedPending ==
    \/ \E e \in Envs : \E i \in 1..Len(cmdq[e]) :
          cmdq[e][i].cmd = "_call" /\ cmdq[e][i].acts \in ReservedNames
    \/ \E i \in 1..Len(error_queue) : error_queue[i].exctype = "ValueError"

\* C33: a worker that takes a call command naming a reserved command does
\* nothing to its sub-environment but close it on exit: it puts a ValueError
\* with its index on the error queue, sends the failure flag and exits; and
\* a _call_wait that finishes (without timing out) while such a command or
\* its error is outstanding raises the ValueError, no worker having failed
\* for another reason
C33_ReservedCall ==
    [][ /\ \A e \in Envs : (runner = "async" /\ TakesReserved(e)) =>
              /\ sub_agents'[e] = sub_agents[e]
              /\ last_op'[e] = last_op[e]
              /\ observations'[e] = observations[e]
              /\ ~alive'[e] /\ env_closed'[e]
              /\ error_queue' = Append(error_queue, ErrorEntry(e, "ValueError"))
              /\ respq'[e] = Append(respq[e], FailResp)
        /\ (Idle /\ astate = WAITING_CALL /\ pc' = "returned" /\ result'.call = "call"
              /\ result'.status # "TimeoutError" /\ ReservedPending /\ failures = 0)
             => result'.status = "ValueError" ]_vars

\* sub-environment e handed back, from the call this step made of it, a
\* mapping whose key set is not the agent set the contract keys it by
Deviated(e) ==
    LET f == env_fns[e].fault
        S == IF last_op'[e].op = "step" THEN Range(sub_agents[e]) ELSE Range(sub_agents'[e])
    IN /\ f.call = CallOf(last_op'[e].op)
       /\ KeysOf(e, f.call, f.mapping, S) # S

\* C34: with debug on, a reset or a step of the synchronous runner that
\* returns normally has met no sub-environment whose reset or step handed
\* back an observation, reward, termination or truncation mapping with a
\* key set other than its agent set; with debug off no call fails the check
C34_DebugChecks ==
    [][ /\ (runner = "sync" /\ debug /\ (Returns("reset", "ok") \/ Returns("step", "ok")))
              => \A e \in Envs : ~Deviated(e)
        /\ (runner = "sync" /\ ~debug /\ pc' = "returned")
              => result'.status # "AssertionError" ]_vars

\* C35: with workers that answer every command and never fail, an
\* operation that is pending is eventually completed and the execution
\* state is DEFAULT again, and an await that has received the results and
\* asks the workers for their agents eventually returns or raises
C35_Liveness ==
    /\ (astate # DEFAULT) ~> (astate = DEFAULT)
    /\ (pc \in {"reset_agents", "step_agents"}) ~> (pc = "returned")

\* agents_old[e] as reset and step of the synchronous runner leave it: the
\* new agent list of a sub-environment the call reset or found with no
\* agent left, else the ledger entry the call found
OldAfter(call, e) ==
    IF call = "reset" \/ agents[e] = NoAgents
    THEN sub_agents'[e]
    ELSE agents[e]

\* the key sets of the four mappings of a result for sub-environment e
ResultKeys(r, e) ==
    {KeysIn(r.observation, e), KeysIn(r.reward, e),
     KeysIn(r.termination, e), KeysIn(r.truncation, e)}

\* C36: without timeouts and failures, a reset or a step after the first
\* reset that returns leaves either runner in the state in which the synchronous runner is
\* left by the same behaviour of the sub-environments: the ledger holds
\* their agent lists, agents_old is as the synchronous runner leaves it,
\* envs_have_agents is derived from the ledger, and the entries returned
\* for a sub-environment are keyed by one agent list, that of the ledger
\* before or after the call
C36_SyncAsyncEquivalence ==
    [][ \A call \in {"reset", "step"} :
          (/\ Returns(call, "ok") /\ (call = "step" => ledger_from # "init")
           /\ timeouts = 0 /\ failures = 0 /\ stale_begins = 0) =>
             /\ agents' = sub_agents'
             /\ envs_have_agents' = UpdateEnvsHaveAgents(agents')
             /\ \A e \in Envs :
                   /\ agents_old'[e] = OldAfter(call, e)
                   /\ KeysIn(result'.observation, e) \in
                         IF call = "reset" THEN {Range(agents'[e])}
                         ELSE {Range(agents[e]), Range(agents'[e])}
                   /\ call = "step" => Cardinality(ResultKeys(result', e)) = 1 ]_vars

\* the orchestrator takes the response at the head of pipe e in this step
Consumes(e) == respq[e] # << >> /\ respq'[e] = Tail(respq[e])

\* C37: a response the orchestrator takes from a worker is the reply to the
\* command it sent that worker last: the worker holds no later command and
\* the pipe no later response
C37_RequestResponsePairing ==
    [][ \A e \in Envs : (runner = "async" /\ Consumes(e)) =>
            /\ cmdq[e] = << >>
            /\ Len(respq[e]) = 1 ]_vars

\* an await of the asynchronous runner finishes in this step: it returns,
\* times out or raises the failure a worker reported
AwaitFinishes ==
    /\ runner = "async"
    /\ pc \in {"idle", "reset_agents", "step_agents"}
    /\ pc' = "returned"
    /\ result'.call \in {"reset", "step", "call"}
    /\ result'.status \in {"ok", "TimeoutError"} \cup ExcTypes

\* C38: when an await finishes, by returning, by timing out or by raising
\* the failure of a worker, the execution state is DEFAULT
C38_StateRecovers ==
    [][ AwaitFinishes => astate' = DEFAULT ]_vars

\* a step fails in projecting the action batch
ProjectionRaises ==
    \/ runner = "sync" /\ Returns("step", "KeyError")
    \/ runner = "async" /\ Returns("step_async", "KeyError")

\* C39: a step that fails in projecting the action batch has not stepped
\* or reset any sub-environment and has sent no command to any worker, and
\* leaves the ledger, the autoreset flags and the execution state as they
\* were
C39_AtomicProjection ==
    [][ ProjectionRaises =>
          /\ pc = "idle"
          /\ \E a \in Agents : envs_have_agents[a] # << >>
          /\ UNCHANGED <<sub_agents, last_op, observations, cmdq, respq>>
          /\ UNCHANGED <<agents, agents_old, envs_have_agents, ledger_from>>
          /\ UNCHANGED <<autoreset_envs, autoreset, astate>> ]_vars

\* a step of either runner has failed in the projection while agents were
\* live and, on the asynchronous runner, nothing was in flight
C39_Witness ==
    /\ Returned(IF runner = "sync" THEN "step" ELSE "step_async", "KeyError")
    /\ \A e \in Envs : agents[e] = possible_agents /\ InFlight(e) = 0
    /\ ledger_from = "step"

\* num_agents: {env_id: len(env.agents)}
num_agents == [e \in Envs |-> Len(sub_agents[e])]

\* C40: whenever the caller of the synchronous runner has control, the
\* ledger entry of every sub-environment is the sub-environment's own agent
\* list, num_agents is the length of the ledger entry and the autoreset flag
\* is set exactly when the sub-environment has no agent
C40_LedgerFaithful ==
    runner = "sync" =>
        \A e \in Envs :
            /\ agents[e] = sub_agents[e]
            /\ num_agents[e] = Len(agents[e])
            /\ autoreset_envs[e] <=> sub_agents[e] = NoAgents

====
